---- MODULE Spec2Model ----
(***************************************************************************)
(* Ingestion pipeline of the odin bookmarking service (backend crate):     *)
(* the bookmarks table, the tantivy index (writer, committed segments,     *)
(* reader snapshot), the fetch semaphore, and the handlers ingest_urls,    *)
(* process_url (one background task per accepted URL) and delete.          *)
(*                                                                         *)
(* Steps are cut at the await points of the handlers and at the calls      *)
(* made while the writer mutex is held.  A step that only computes on      *)
(* task-local data (the HTTP response arriving, the body being read and    *)
(* classified) is joined to the next step that touches shared state.       *)
(***************************************************************************)
EXTENDS Integers, Sequences, FiniteSets, TLC

\* ------------------------------------------------------------- bounds
NumUrls == 2
MaxSubmissions == 2
MaxDeletes == 1
ExtraTasks == 1
MaxRawLen == 4
MaxClock == 2
MaxTextLen == 3
MaxBodyLen == 5

\* ------------------------------------------------- program constants
MAX_URLS == 100
CONCURRENT_FETCH_LIMIT == 10

\* Characters of a URL string: a whitespace character, the absolute prefix
\* "https://e.com/", a path or fragment character, '#', and the escape the
\* parser writes for a space inside the URL.
Chars == {"sp", "abs", "a", "#"}
Escaped == "%20"

\* The canonical string of the k-th URL: "https://e.com/", "https://e.com/a", ...
Canon(k) == <<"abs">> \o [j \in 1 .. (k - 1) |-> "a"]

Urls == {Canon(k) : k \in 1 .. NumUrls}
\* Option::None of normalize_url; also the url of a delete that found no row.
NoUrl == << >>
NullInt == -1
NULL == "NULL"

IngestIds == 1 .. MaxSubmissions
DeleteIds == 1 .. MaxDeletes

VARIABLES
    rows,       \* bookmarks table: id -> row
    nextId,     \* AUTOINCREMENT counter of bookmarks.id
    tasks,      \* spawned process_url tasks, in spawn order
    permits,    \* free permits of fetch_semaphore
    writer,     \* holder of the writer mutex
    pending,    \* operations buffered in the IndexWriter, not yet committed
    committed,  \* documents of the last commit
    snapshot,   \* documents the reader's searcher sees
    replaced,   \* tasks whose document a later delete_term of its URL targets
    ingests,    \* ingest_urls calls
    deletes,    \* delete calls
    clock,      \* the reading of the wall clock
    listing,    \* the answer of the list call
    searching,  \* the answer of the search call
    extraction  \* the text a task is extracting, and what it made of it

vars == <<rows, nextId, tasks, permits, writer, pending, committed, snapshot,
          replaced, ingests, deletes, clock, listing, searching, extraction>>

\* ------------------------------------------------------ pure functions

\* str::trim
RECURSIVE TrimStart(_)
TrimStart(s) == IF s # << >> /\ Head(s) = "sp" THEN TrimStart(Tail(s)) ELSE s

RECURSIVE TrimEnd(_)
TrimEnd(s) ==
    IF s # << >> /\ s[Len(s)] = "sp" THEN TrimEnd(SubSeq(s, 1, Len(s) - 1)) ELSE s

Trim(s) == TrimEnd(TrimStart(s))

\* Index of the first '#' of s, or Len(s) + 1.
RECURSIVE HashFrom(_, _)
HashFrom(s, k) ==
    IF k > Len(s) \/ s[k] = "#" THEN k ELSE HashFrom(s, k + 1)

\* Url::parse: the input must start with a scheme and authority; the text
\* up to the first '#' is the path, the rest is the fragment; a space inside
\* either is percent-encoded.
ParseUrl(s) ==
    LET h == HashFrom(s, 1)
        enc(t) == [j \in 1 .. Len(t) |-> IF t[j] = "sp" THEN Escaped ELSE t[j]]
    IN  IF s = << >> \/ Head(s) # "abs" THEN [ok |-> FALSE]
        ELSE [ok |-> TRUE,
              path |-> enc(SubSeq(s, 1, h - 1)),
              has_fragment |-> h <= Len(s),
              fragment |-> enc(SubSeq(s, h + 1, Len(s)))]

\* Url::to_string
UrlToString(url) ==
    IF url.has_fragment THEN url.path \o <<"#">> \o url.fragment ELSE url.path

\* Variant: the fragment is kept in the key.
NormalizeUrlKeepFragment(raw) ==
    LET trimmed == Trim(raw) IN
    IF trimmed = << >> THEN NoUrl
    ELSE LET url == ParseUrl(trimmed) IN
         IF ~url.ok THEN NoUrl ELSE UrlToString(url)

NormalizeUrl(raw) ==
    LET trimmed == Trim(raw) IN
    IF trimmed = << >> THEN NoUrl                    \* trimmed.is_empty()
    ELSE LET url == ParseUrl(trimmed) IN
         IF ~url.ok THEN NoUrl                       \* Url::parse(..).ok()?
         ELSE UrlToString([url EXCEPT !.has_fragment = FALSE,   \* set_fragment(None)
                                      !.fragment = << >>])

\* The raw strings the requests carry: a URL of Urls, the empty string or a
\* relative reference, with or without a fragment, with or without
\* surrounding whitespace.
RawUrls ==
    { pad \o body \o frag \o pad :
        pad \in {<< >>, <<"sp">>},
        body \in Urls \cup {<< >>, <<"a">>},
        frag \in {<< >>, <<"#", "a">>} }

\* A response: status code, Content-Type header, and whether the body starts
\* like markup (what looks_like_html finds in its first bytes).
Responses ==
    { [status |-> 200, ct |-> "text/html", markup |-> TRUE],
      [status |-> 200, ct |-> "application/json", markup |-> TRUE],
      [status |-> 404, ct |-> "text/html", markup |-> FALSE] }
NoResp == [status |-> 0, ct |-> "", markup |-> FALSE]

IsSuccess(status) == status >= 200 /\ status <= 299

IsHtmlContent(ct, markup) ==
    IF ct \in {"text/html", "application/xhtml+xml"} THEN TRUE
    ELSE IF ct \in {"", "text/plain", "application/octet-stream"} THEN markup
    ELSE FALSE

\* What the network does to one GET: the send fails, or a response arrives
\* and its body is read or not.
\* `chars` is the number of characters of the text the failure message is
\* made of: the error's to_string() when the send or the read of the body
\* fails, the cleaned body when the status is not a success.
FetchesOf(lengths) ==
    [sent : {FALSE}, resp : {NoResp}, bodyok : {FALSE}, chars : lengths]
    \cup [sent : {TRUE}, resp : Responses, bodyok : BOOLEAN, chars : lengths]

\* A message of a few words.
ShortText == 20

Fetches == FetchesOf({ShortText})

TransportError == [sent |-> FALSE, resp |-> NoResp, bodyok |-> FALSE, chars |-> ShortText]

\* truncate_error, on the number of characters: at most MAX_CHARS of the
\* message and an ellipsis.
MAX_CHARS == 900
truncate_error(chars) == IF chars <= MAX_CHARS THEN chars ELSE MAX_CHARS + 1

\* body_preview: nothing for an empty text, else at most 240 characters and
\* an ellipsis.
PREVIEW_CHARS == 240
body_preview(chars) == IF chars <= PREVIEW_CHARS THEN chars ELSE PREVIEW_CHARS + 1

\* "http error: 404 Not Found", and " body_preview=" before the preview.
HttpErrorChars(chars) ==
    25 + (IF chars = 0 THEN 0 ELSE 14 + body_preview(chars))

\* "unsupported content type"
UnsupportedChars == 24

\* The decision chain of process_url from the send to the classification.
FetchResult(f) ==
    IF ~f.sent THEN
        [kind |-> "failed", http |-> 0, ct |-> "", err |-> "request error",
         chars |-> truncate_error(f.chars)]
    ELSE IF ~f.bodyok THEN
        [kind |-> "failed", http |-> f.resp.status, ct |-> f.resp.ct,
         err |-> "body error", chars |-> truncate_error(f.chars)]
    ELSE IF ~IsSuccess(f.resp.status) THEN
        [kind |-> "failed", http |-> f.resp.status, ct |-> f.resp.ct,
         err |-> "http error", chars |-> truncate_error(HttpErrorChars(f.chars))]
    ELSE IF ~IsHtmlContent(f.resp.ct, f.resp.markup) THEN
        [kind |-> "failed", http |-> f.resp.status, ct |-> f.resp.ct,
         err |-> "unsupported content type", chars |-> UnsupportedChars]
    ELSE
        [kind |-> "html", http |-> f.resp.status, ct |-> f.resp.ct,
         err |-> NULL, chars |-> NullInt]

\* ------------------------------------------------------- record store

\* Variant: uniqueness enforced among queued rows only.
HasQueuedRow(u) ==
    \E id \in DOMAIN rows : rows[id].url = u /\ rows[id].status = "queued"

\* The UNIQUE constraint on bookmarks.url, as INSERT OR IGNORE consults it.
HasRow(u) == \E id \in DOMAIN rows : rows[id].url = u

NewRow(u) ==
    [url |-> u, status |-> "queued", http_status |-> NullInt,
     content_type |-> NULL, error |-> NULL, error_chars |-> NullInt,
     updated_at |-> clock]

\* UPDATE bookmarks SET status = 'failed', ... WHERE url = ?
MarkFailedRows(u, http, ct, err, chars) ==
    [id \in DOMAIN rows |->
        IF rows[id].url = u
        THEN [rows[id] EXCEPT !.status = "failed", !.http_status = http,
                              !.content_type = ct, !.error = err,
                              !.error_chars = chars,
                              !.updated_at = clock]
        ELSE rows[id]]

\* Variant: the UPDATE to 'indexed' leaves the error column as it was.
MarkIndexedRowsKeepError(u, http, ct) ==
    [id \in DOMAIN rows |->
        IF rows[id].url = u
        THEN [rows[id] EXCEPT !.status = "indexed", !.http_status = http,
                              !.content_type = ct,
                              !.updated_at = clock]
        ELSE rows[id]]

\* UPDATE bookmarks SET status = 'indexed', ..., error = NULL WHERE url = ?
MarkIndexedRows(u, http, ct) ==
    [id \in DOMAIN rows |->
        IF rows[id].url = u
        THEN [rows[id] EXCEPT !.status = "indexed", !.http_status = http,
                              !.content_type = ct, !.error = NULL,
                              !.error_chars = NullInt,
                              !.updated_at = clock]
        ELSE rows[id]]

\* ------------------------------------------------------- index engine

NoHolder == <<"none", 0>>
TaskHolder(t) == <<"task", t>>
DeleteHolder(d) == <<"delete", d>>

Doc(t) == [url |-> tasks[t].url, task |-> t]

DelOp(u) == [op |-> "del", url |-> u, task |-> 0]
\* The delete_term an upsert issues, tagged with the task that issued it.
UpsertDelOp(t) == [op |-> "del", url |-> tasks[t].url, task |-> t]
AddOp(t) == [op |-> "add", url |-> tasks[t].url, task |-> t]

\* A commit applies the buffered operations in the order they were issued:
\* a delete_term removes the documents added before it.
RECURSIVE ApplyOps(_, _)
ApplyOps(ops, docs) ==
    IF ops = << >> THEN docs
    ELSE LET o == Head(ops) IN
         ApplyOps(Tail(ops),
                  IF o.op = "del"
                  THEN {d \in docs : d.url # o.url}
                  ELSE docs \cup {[url |-> o.url, task |-> o.task]})

\* Tasks whose document is buffered or committed when a delete_term of u
\* is issued.
Targeted(u) ==
    {t \in 1 .. Len(tasks) :
        /\ tasks[t].url = u
        /\ \/ Doc(t) \in committed
           \/ \E k \in 1 .. Len(pending) : pending[k] = AddOp(t)}

\* URLs a search can return: the documents of the reader's snapshot.
SearchUrls == {d.url : d \in snapshot}

\* --------------------------------------------------------------- Init

NoListing == [ret |-> "none", results |-> << >>]
\* An optional u32 parameter.  A u32 is written as two
\* 16-bit limbs, hi * 2^16 + lo.
Limb == 65536
NoParam == [some |-> FALSE, hi |-> 0, lo |-> 0]
Some(hi, lo) == [some |-> TRUE, hi |-> hi, lo |-> lo]
NoSearch ==
    [q |-> << >>, page |-> NoParam, per_page |-> NoParam, ret |-> "none",
     offset |-> NoParam, total_hits |-> 0, results |-> << >>, engine |-> FALSE]

NoExtraction == [fn |-> "none"]

IdleIngest == [pc |-> "idle", left |-> 0, accepted |-> 0, deduped |-> 0,
               ret |-> "none"]
IdleDelete == [pc |-> "idle", id |-> 0, url |-> NoUrl, ret |-> "none"]

Init ==
    /\ clock = 0
    /\ listing = NoListing
    /\ searching = NoSearch
    /\ extraction = NoExtraction
    /\ rows = << >>
    /\ nextId = 1
    /\ tasks = << >>
    /\ permits = CONCURRENT_FETCH_LIMIT
    /\ writer = NoHolder
    /\ pending = << >>
    /\ committed = {}
    /\ snapshot = {}
    /\ replaced = {}
    /\ ingests = [i \in IngestIds |-> IdleIngest]
    /\ deletes = [d \in DeleteIds |-> IdleDelete]

\* -------------------------------------------------------- ingest_urls

RECURSIVE SubmittedUpTo(_)
SubmittedUpTo(i) ==
    IF i = 0 THEN 0
    ELSE ingests[i].left + ingests[i].accepted + ingests[i].deduped
         + SubmittedUpTo(i - 1)

\* URLs of the batches received so far.
Submitted == SubmittedUpTo(MaxSubmissions)

BatchSizes == (0 .. (MaxSubmissions - Submitted)) \cup {MAX_URLS + 1}

\* Variant: a batch of exactly MAX_URLS is rejected too.
IngestBeginOffByOne(i, n) ==
    /\ ingests[i].pc = "idle"
    /\ \A j \in 1 .. (i - 1) : ingests[j].pc # "idle"
    /\ ingests' = [ingests EXCEPT ![i] =
          IF n = 0 THEN [@ EXCEPT !.pc = "done", !.ret = "ok"]
          ELSE IF n >= MAX_URLS THEN [@ EXCEPT !.pc = "done", !.ret = "bad_request"]
          ELSE [@ EXCEPT !.pc = "loop", !.left = n]]
    /\ UNCHANGED <<rows, nextId, tasks, permits, writer, pending, committed,
                   snapshot, replaced, deletes,
                   clock, listing, searching, extraction>>

\* Calls are numbered in the order they arrive.
IngestBegin(i, n) ==
    /\ ingests[i].pc = "idle"
    /\ \A j \in 1 .. (i - 1) : ingests[j].pc # "idle"
    /\ ingests' = [ingests EXCEPT ![i] =
          IF n = 0 THEN [@ EXCEPT !.pc = "done", !.ret = "ok"]
          ELSE IF n > MAX_URLS THEN [@ EXCEPT !.pc = "done", !.ret = "bad_request"]
          ELSE [@ EXCEPT !.pc = "loop", !.left = n]]
    /\ UNCHANGED <<rows, nextId, tasks, permits, writer, pending, committed,
                   snapshot, replaced, deletes,
                   clock, listing, searching, extraction>>

\* The call after one more URL of the batch has been handled.
Advance(c, field) ==
    LET c1 == [c EXCEPT ![field] = @ + 1, !.left = @ - 1] IN
    IF c1.left = 0 THEN [c1 EXCEPT !.pc = "done", !.ret = "ok"] ELSE c1

NewTask(u) == [url |-> u, pc |-> "acquire", permit |-> FALSE, http |-> NullInt,
               ct |-> NULL, wrote |-> "none", ret |-> "none"]

\* Variant: a URL that does not normalize ends the call with an error.
IngestUrlRejectInvalid(i, raw, dbok) ==
    LET u == NormalizeUrl(raw) IN
    /\ ingests[i].pc = "loop"
    /\ IF u = NoUrl \/ ~dbok THEN
          /\ ingests' = [ingests EXCEPT ![i] = [@ EXCEPT !.pc = "done", !.ret = "error"]]
          /\ UNCHANGED <<rows, nextId, tasks>>
       ELSE IF HasRow(u) THEN
          /\ ingests' = [ingests EXCEPT ![i] = Advance(@, "deduped")]
          /\ UNCHANGED <<rows, nextId, tasks>>
       ELSE
          /\ rows' = rows @@ (nextId :> NewRow(u))
          /\ nextId' = nextId + 1
          /\ tasks' = Append(tasks, NewTask(u))
          /\ ingests' = [ingests EXCEPT ![i] = Advance(@, "accepted")]
    /\ UNCHANGED <<permits, writer, pending, committed, snapshot, replaced, deletes,
                   clock, listing, searching, extraction>>

\* Variant: a plain INSERT into a table without the UNIQUE constraint.
IngestUrlPlainInsert(i, raw, dbok) ==
    LET u == NormalizeUrl(raw) IN
    /\ ingests[i].pc = "loop"
    /\ IF u = NoUrl THEN
          /\ ingests' = [ingests EXCEPT ![i] = Advance(@, "deduped")]
          /\ UNCHANGED <<rows, nextId, tasks>>
       ELSE IF ~dbok THEN
          /\ ingests' = [ingests EXCEPT ![i] = [@ EXCEPT !.pc = "done", !.ret = "error"]]
          /\ UNCHANGED <<rows, nextId, tasks>>
       ELSE
          /\ rows' = rows @@ (nextId :> NewRow(u))
          /\ nextId' = nextId + 1
          /\ tasks' = Append(tasks, NewTask(u))
          /\ ingests' = [ingests EXCEPT ![i] = Advance(@, "accepted")]
    /\ UNCHANGED <<permits, writer, pending, committed, snapshot, replaced, deletes,
                   clock, listing, searching, extraction>>

\* Variant: the handler takes a fetch permit for the task before it spawns it.
IngestUrlAwaitPermit(i, raw, dbok) ==
    LET u == NormalizeUrl(raw) IN
    /\ ingests[i].pc = "loop"
    /\ permits > 0
    /\ IF u = NoUrl \/ (dbok /\ HasRow(u)) THEN
          /\ ingests' = [ingests EXCEPT ![i] = Advance(@, "deduped")]
          /\ UNCHANGED <<rows, nextId, tasks, permits>>
       ELSE IF ~dbok THEN
          /\ ingests' = [ingests EXCEPT ![i] = [@ EXCEPT !.pc = "done", !.ret = "error"]]
          /\ UNCHANGED <<rows, nextId, tasks, permits>>
       ELSE
          /\ rows' = rows @@ (nextId :> NewRow(u))
          /\ nextId' = nextId + 1
          /\ permits' = permits - 1
          /\ tasks' = Append(tasks, [NewTask(u) EXCEPT !.pc = "fetch", !.permit = TRUE])
          /\ ingests' = [ingests EXCEPT ![i] = Advance(@, "accepted")]
    /\ UNCHANGED <<writer, pending, committed, snapshot, replaced, deletes,
                   clock, listing, searching, extraction>>

\* Variant: a URL that does not normalize is skipped without being counted.
IngestUrlSkipInvalid(i, raw, dbok) ==
    LET u == NormalizeUrl(raw) IN
    /\ ingests[i].pc = "loop"
    /\ IF u = NoUrl THEN
          /\ ingests' = [ingests EXCEPT ![i] =
                IF @.left = 1 THEN [@ EXCEPT !.left = 0, !.pc = "done", !.ret = "ok"]
                ELSE [@ EXCEPT !.left = @ - 1]]
          /\ UNCHANGED <<rows, nextId, tasks>>
       ELSE IF ~dbok THEN
          /\ ingests' = [ingests EXCEPT ![i] = [@ EXCEPT !.pc = "done", !.ret = "error"]]
          /\ UNCHANGED <<rows, nextId, tasks>>
       ELSE IF HasRow(u) THEN
          /\ ingests' = [ingests EXCEPT ![i] = Advance(@, "deduped")]
          /\ UNCHANGED <<rows, nextId, tasks>>
       ELSE
          /\ rows' = rows @@ (nextId :> NewRow(u))
          /\ nextId' = nextId + 1
          /\ tasks' = Append(tasks, NewTask(u))
          /\ ingests' = [ingests EXCEPT ![i] = Advance(@, "accepted")]
    /\ UNCHANGED <<permits, writer, pending, committed, snapshot, replaced, deletes,
                   clock, listing, searching, extraction>>

\* Variant: a URL whose row exists is counted as deduped and fetched again.
IngestUrlRespawn(i, raw, dbok) ==
    LET u == NormalizeUrl(raw) IN
    /\ ingests[i].pc = "loop"
    /\ IF u = NoUrl THEN
          /\ ingests' = [ingests EXCEPT ![i] = Advance(@, "deduped")]
          /\ UNCHANGED <<rows, nextId, tasks>>
       ELSE IF ~dbok THEN
          /\ ingests' = [ingests EXCEPT ![i] = [@ EXCEPT !.pc = "done", !.ret = "error"]]
          /\ UNCHANGED <<rows, nextId, tasks>>
       ELSE IF HasRow(u) THEN
          /\ ingests' = [ingests EXCEPT ![i] = Advance(@, "deduped")]
          /\ tasks' = Append(tasks, NewTask(u))
          /\ UNCHANGED <<rows, nextId>>
       ELSE
          /\ rows' = rows @@ (nextId :> NewRow(u))
          /\ nextId' = nextId + 1
          /\ tasks' = Append(tasks, NewTask(u))
          /\ ingests' = [ingests EXCEPT ![i] = Advance(@, "accepted")]
    /\ UNCHANGED <<permits, writer, pending, committed, snapshot, replaced, deletes,
                   clock, listing, searching, extraction>>

\* Variant: the INSERT refreshes updated_at of the row it collides with.
IngestUrlTouch(i, raw, dbok) ==
    LET u == NormalizeUrl(raw) IN
    /\ ingests[i].pc = "loop"
    /\ IF u = NoUrl THEN
          /\ ingests' = [ingests EXCEPT ![i] = Advance(@, "deduped")]
          /\ UNCHANGED <<rows, nextId, tasks>>
       ELSE IF ~dbok THEN
          /\ ingests' = [ingests EXCEPT ![i] = [@ EXCEPT !.pc = "done", !.ret = "error"]]
          /\ UNCHANGED <<rows, nextId, tasks>>
       ELSE IF HasRow(u) THEN
          /\ ingests' = [ingests EXCEPT ![i] = Advance(@, "deduped")]
          /\ rows' = [id \in DOMAIN rows |->
                        IF rows[id].url = u
                        THEN [rows[id] EXCEPT !.updated_at = clock]
                        ELSE rows[id]]
          /\ UNCHANGED <<nextId, tasks>>
       ELSE
          /\ rows' = rows @@ (nextId :> NewRow(u))
          /\ nextId' = nextId + 1
          /\ tasks' = Append(tasks, NewTask(u))
          /\ ingests' = [ingests EXCEPT ![i] = Advance(@, "accepted")]
    /\ UNCHANGED <<permits, writer, pending, committed, snapshot, replaced, deletes,
                   clock, listing, searching, extraction>>

\* One iteration of the loop over payload.urls: normalize, INSERT OR IGNORE,
\* count, spawn.
IngestUrl(i, raw, dbok) ==
    LET u == NormalizeUrl(raw) IN
    /\ ingests[i].pc = "loop"
    /\ IF u = NoUrl THEN
          /\ ingests' = [ingests EXCEPT ![i] = Advance(@, "deduped")]
          /\ UNCHANGED <<rows, nextId, tasks>>
       ELSE IF ~dbok THEN
          /\ ingests' = [ingests EXCEPT ![i] = [@ EXCEPT !.pc = "done", !.ret = "error"]]
          /\ UNCHANGED <<rows, nextId, tasks>>
       ELSE IF HasRow(u) THEN
          /\ ingests' = [ingests EXCEPT ![i] = Advance(@, "deduped")]
          /\ UNCHANGED <<rows, nextId, tasks>>
       ELSE
          /\ rows' = rows @@ (nextId :> NewRow(u))
          /\ nextId' = nextId + 1
          /\ tasks' = Append(tasks, NewTask(u))
          /\ ingests' = [ingests EXCEPT ![i] = Advance(@, "accepted")]
    /\ UNCHANGED <<permits, writer, pending, committed, snapshot, replaced, deletes,
                   clock, listing, searching, extraction>>

\* -------------------------------------------------------- process_url

TaskIds == 1 .. Len(tasks)

\* Variant: the task proceeds without waiting for a free permit.
AcquireNoWait(t) ==
    /\ tasks[t].pc = "acquire"
    /\ permits' = permits - 1
    /\ tasks' = [tasks EXCEPT ![t] = [@ EXCEPT !.pc = "fetch", !.permit = TRUE]]
    /\ UNCHANGED <<rows, nextId, writer, pending, committed, snapshot,
                   replaced, ingests, deletes,
                   clock, listing, searching, extraction>>

\* let _permit = fetch_semaphore.acquire().await?
Acquire(t) ==
    /\ tasks[t].pc = "acquire"
    /\ permits > 0
    /\ permits' = permits - 1
    /\ tasks' = [tasks EXCEPT ![t] = [@ EXCEPT !.pc = "fetch", !.permit = TRUE]]
    /\ UNCHANGED <<rows, nextId, writer, pending, committed, snapshot,
                   replaced, ingests, deletes,
                   clock, listing, searching, extraction>>

\* Variant: the task returns with its permit guard alive.
FinishHoldingPermit(t, wrote, ret) ==
    [tasks[t] EXCEPT !.pc = "done", !.wrote = wrote, !.ret = ret]

\* The task returns after the terminal write `wrote` (or none): the permit
\* guard is dropped.
Finish(t, wrote, ret) ==
    [tasks[t] EXCEPT !.pc = "done", !.permit = FALSE, !.wrote = wrote, !.ret = ret]

\* Variant: the failure exit returns without giving its permit back.
FetchFailedLeakPermit(t, f, dbok) ==
    LET r == FetchResult(f) IN
    /\ tasks[t].pc = "fetch"
    /\ r.kind = "failed"
    /\ IF dbok
       THEN /\ rows' = MarkFailedRows(tasks[t].url, r.http, r.ct, r.err, r.chars)
            /\ tasks' = [tasks EXCEPT ![t] = Finish(t, "failed", "ok")]
       ELSE /\ rows' = rows
            /\ tasks' = [tasks EXCEPT ![t] = Finish(t, "none", "err")]
    /\ UNCHANGED <<nextId, permits, writer, pending, committed, snapshot, replaced,
                   ingests, deletes,
                   clock, listing, searching, extraction>>

\* The GET ends in one of the four failure exits and mark_failed runs.
FetchFailed(t, f, dbok) ==
    LET r == FetchResult(f) IN
    /\ tasks[t].pc = "fetch"
    /\ r.kind = "failed"
    /\ IF dbok
       THEN /\ rows' = MarkFailedRows(tasks[t].url, r.http, r.ct, r.err, r.chars)
            /\ tasks' = [tasks EXCEPT ![t] = Finish(t, "failed", "ok")]
       ELSE /\ rows' = rows
            /\ tasks' = [tasks EXCEPT ![t] = Finish(t, "none", "err")]
    /\ permits' = permits + 1
    /\ UNCHANGED <<nextId, writer, pending, committed, snapshot, replaced,
                   ingests, deletes,
                   clock, listing, searching, extraction>>

\* Variant: index_document adds the document without delete_term(url).
IndexLockNoDelete(t, f) ==
    LET r == FetchResult(f) IN
    /\ tasks[t].pc = "fetch"
    /\ r.kind = "html"
    /\ writer = NoHolder
    /\ writer' = TaskHolder(t)
    /\ tasks' = [tasks EXCEPT ![t] = [@ EXCEPT !.pc = "add", !.http = r.http, !.ct = r.ct]]
    /\ UNCHANGED <<rows, nextId, permits, pending, committed, snapshot, replaced,
                   ingests, deletes,
                   clock, listing, searching, extraction>>

\* The GET returned HTML; index_document takes the writer mutex and buffers
\* delete_term(url).
IndexLock(t, f) ==
    LET r == FetchResult(f) IN
    /\ tasks[t].pc = "fetch"
    /\ r.kind = "html"
    /\ writer = NoHolder
    /\ writer' = TaskHolder(t)
    /\ pending' = Append(pending, UpsertDelOp(t))
    /\ replaced' = replaced \cup Targeted(tasks[t].url)
    /\ tasks' = [tasks EXCEPT ![t] = [@ EXCEPT !.pc = "add", !.http = r.http, !.ct = r.ct]]
    /\ UNCHANGED <<rows, nextId, permits, committed, snapshot, ingests, deletes,
                   clock, listing, searching, extraction>>

\* writer.add_document(doc)?
IndexAdd(t, ok) ==
    /\ tasks[t].pc = "add"
    /\ writer = TaskHolder(t)
    /\ IF ok
       THEN /\ pending' = Append(pending, AddOp(t))
            /\ tasks' = [tasks EXCEPT ![t].pc = "commit"]
            /\ writer' = writer
       ELSE /\ pending' = pending
            /\ tasks' = [tasks EXCEPT ![t].pc = "index_failed"]
            /\ writer' = NoHolder
    /\ UNCHANGED <<rows, nextId, permits, committed, snapshot, replaced,
                   ingests, deletes,
                   clock, listing, searching, extraction>>

\* writer.commit()?
IndexCommit(t, ok) ==
    /\ tasks[t].pc = "commit"
    /\ writer = TaskHolder(t)
    /\ IF ok
       THEN /\ committed' = ApplyOps(pending, committed)
            /\ pending' = << >>
            /\ tasks' = [tasks EXCEPT ![t].pc = "reload"]
            /\ writer' = writer
       ELSE /\ UNCHANGED <<committed, pending>>
            /\ tasks' = [tasks EXCEPT ![t].pc = "index_failed"]
            /\ writer' = NoHolder
    /\ UNCHANGED <<rows, nextId, permits, snapshot, replaced, ingests, deletes,
                   clock, listing, searching, extraction>>

\* Variant: index_document returns after the commit without refreshing the
\* reader.
IndexReloadNoRefresh(t, ok) ==
    /\ tasks[t].pc = "reload"
    /\ writer = TaskHolder(t)
    /\ tasks' = [tasks EXCEPT ![t].pc = IF ok THEN "mark_indexed" ELSE "index_failed"]
    /\ writer' = NoHolder
    /\ UNCHANGED <<rows, nextId, permits, pending, committed, snapshot, replaced,
                   ingests, deletes,
                   clock, listing, searching, extraction>>

\* reader.reload()?, then the mutex guard is dropped.
IndexReload(t, ok) ==
    /\ tasks[t].pc = "reload"
    /\ writer = TaskHolder(t)
    /\ IF ok
       THEN /\ snapshot' = committed
            /\ tasks' = [tasks EXCEPT ![t].pc = "mark_indexed"]
       ELSE /\ snapshot' = snapshot
            /\ tasks' = [tasks EXCEPT ![t].pc = "index_failed"]
    /\ writer' = NoHolder
    /\ UNCHANGED <<rows, nextId, permits, pending, committed, replaced,
                   ingests, deletes,
                   clock, listing, searching, extraction>>

\* index_document returned an error: mark_failed with the index error.
MarkIndexFailed(t, chars, dbok) ==
    /\ tasks[t].pc = "index_failed"
    /\ IF dbok
       THEN /\ rows' = MarkFailedRows(tasks[t].url, tasks[t].http, tasks[t].ct,
                                      "index error", chars)
            /\ tasks' = [tasks EXCEPT ![t] = Finish(t, "failed", "ok")]
       ELSE /\ rows' = rows
            /\ tasks' = [tasks EXCEPT ![t] = Finish(t, "none", "err")]
    /\ permits' = permits + 1
    /\ UNCHANGED <<nextId, writer, pending, committed, snapshot, replaced,
                   ingests, deletes,
                   clock, listing, searching, extraction>>

\* The UPDATE that sets status = 'indexed'; its error is only logged.
MarkIndexed(t, dbok) ==
    /\ tasks[t].pc = "mark_indexed"
    /\ rows' = IF dbok THEN MarkIndexedRows(tasks[t].url, tasks[t].http, tasks[t].ct)
               ELSE rows
    /\ tasks' = [tasks EXCEPT ![t] = Finish(t, IF dbok THEN "indexed" ELSE "none", "ok")]
    /\ permits' = permits + 1
    /\ UNCHANGED <<nextId, writer, pending, committed, snapshot, replaced,
                   ingests, deletes,
                   clock, listing, searching, extraction>>

\* ------------------------------------------------- BookmarkService::delete

\* Variant: the index is cleaned before the row is looked up.
DeleteBeginLockFirst(d, id, dbok) ==
    /\ deletes[d].pc = "idle"
    /\ \A e \in 1 .. (d - 1) : deletes[e].pc # "idle"
    /\ deletes' = [deletes EXCEPT ![d] =
          IF id <= 0 THEN [@ EXCEPT !.pc = "done", !.id = id, !.ret = "bad_request"]
          ELSE IF ~dbok THEN [@ EXCEPT !.pc = "done", !.id = id, !.ret = "error"]
          ELSE [@ EXCEPT !.pc = "lock", !.id = id,
                         !.url = IF id \in DOMAIN rows THEN rows[id].url ELSE NoUrl]]
    /\ UNCHANGED <<rows, nextId, tasks, permits, writer, pending, committed,
                   snapshot, replaced, ingests,
                   clock, listing, searching, extraction>>

\* id check and SELECT url FROM bookmarks WHERE id = ?
DeleteBegin(d, id, dbok) ==
    /\ deletes[d].pc = "idle"
    /\ \A e \in 1 .. (d - 1) : deletes[e].pc # "idle"
    /\ deletes' = [deletes EXCEPT ![d] =
          IF id <= 0 THEN [@ EXCEPT !.pc = "done", !.id = id, !.ret = "bad_request"]
          ELSE IF ~dbok THEN [@ EXCEPT !.pc = "done", !.id = id, !.ret = "error"]
          ELSE IF id \notin DOMAIN rows
               THEN [@ EXCEPT !.pc = "done", !.id = id, !.ret = "not_found"]
          ELSE [@ EXCEPT !.pc = "lock", !.id = id, !.url = rows[id].url]]
    /\ UNCHANGED <<rows, nextId, tasks, permits, writer, pending, committed,
                   snapshot, replaced, ingests,
                   clock, listing, searching, extraction>>

\* writer.lock().await; writer.delete_term(url)
DeleteLock(d) ==
    /\ deletes[d].pc = "lock"
    /\ writer = NoHolder
    /\ writer' = DeleteHolder(d)
    /\ pending' = Append(pending, DelOp(deletes[d].url))
    /\ replaced' = replaced \cup Targeted(deletes[d].url)
    /\ deletes' = [deletes EXCEPT ![d].pc = "commit"]
    /\ UNCHANGED <<rows, nextId, tasks, permits, committed, snapshot, ingests,
                   clock, listing, searching, extraction>>

\* writer.commit()?
DeleteCommit(d, ok) ==
    /\ deletes[d].pc = "commit"
    /\ writer = DeleteHolder(d)
    /\ IF ok
       THEN /\ committed' = ApplyOps(pending, committed)
            /\ pending' = << >>
            /\ deletes' = [deletes EXCEPT ![d].pc = "reload"]
            /\ writer' = writer
       ELSE /\ UNCHANGED <<committed, pending>>
            /\ deletes' = [deletes EXCEPT ![d] = [@ EXCEPT !.pc = "done", !.ret = "error"]]
            /\ writer' = NoHolder
    /\ UNCHANGED <<rows, nextId, tasks, permits, snapshot, replaced, ingests,
                   clock, listing, searching, extraction>>

\* Variant: the result of reader.reload() is ignored.
DeleteReloadIgnoreError(d, ok) ==
    /\ deletes[d].pc = "reload"
    /\ writer = DeleteHolder(d)
    /\ snapshot' = IF ok THEN committed ELSE snapshot
    /\ deletes' = [deletes EXCEPT ![d].pc = "delete_row"]
    /\ writer' = NoHolder
    /\ UNCHANGED <<rows, nextId, tasks, permits, pending, committed, replaced, ingests,
                   clock, listing, searching, extraction>>

\* reader.reload()?, then the mutex guard is dropped.
DeleteReload(d, ok) ==
    /\ deletes[d].pc = "reload"
    /\ writer = DeleteHolder(d)
    /\ IF ok
       THEN /\ snapshot' = committed
            /\ deletes' = [deletes EXCEPT ![d].pc = "delete_row"]
       ELSE /\ snapshot' = snapshot
            /\ deletes' = [deletes EXCEPT ![d] = [@ EXCEPT !.pc = "done", !.ret = "error"]]
    /\ writer' = NoHolder
    /\ UNCHANGED <<rows, nextId, tasks, permits, pending, committed, replaced, ingests,
                   clock, listing, searching, extraction>>

\* DELETE FROM bookmarks WHERE id = ?
DeleteRow(d, dbok) ==
    /\ deletes[d].pc = "delete_row"
    /\ IF ~dbok THEN
          /\ rows' = rows
          /\ deletes' = [deletes EXCEPT ![d] = [@ EXCEPT !.pc = "done", !.ret = "error"]]
       ELSE IF deletes[d].id \notin DOMAIN rows THEN
          /\ rows' = rows
          /\ deletes' = [deletes EXCEPT ![d] = [@ EXCEPT !.pc = "done", !.ret = "not_found"]]
       ELSE
          /\ rows' = [id \in DOMAIN rows \ {deletes[d].id} |-> rows[id]]
          /\ deletes' = [deletes EXCEPT ![d] = [@ EXCEPT !.pc = "done", !.ret = "ok"]]
    /\ UNCHANGED <<nextId, tasks, permits, writer, pending, committed, snapshot,
                   replaced, ingests,
                   clock, listing, searching, extraction>>

\* --------------------------------------------------- BookmarkService::list

\* Variant: equal updated_at values are left in insertion order.
BeforeNoTieBreak(a, b) ==
    \/ rows[a].updated_at > rows[b].updated_at
    \/ rows[a].updated_at = rows[b].updated_at /\ a < b

\* Row a comes before row b under ORDER BY updated_at DESC, id DESC.
Before(a, b) ==
    \/ rows[a].updated_at > rows[b].updated_at
    \/ rows[a].updated_at = rows[b].updated_at /\ a > b

RECURSIVE OrderBy(_)
OrderBy(ids) ==
    IF ids = {} THEN << >>
    ELSE LET first == CHOOSE a \in ids : \A b \in ids \ {a} : Before(a, b)
         IN  <<first>> \o OrderBy(ids \ {first})

\* The columns the SELECT returns for one row (title is not modelled).
ListItem(id) ==
    [id |-> id, url |-> rows[id].url, status |-> rows[id].status,
     updated_at |-> rows[id].updated_at]

\* SELECT id, url, title, status, updated_at FROM bookmarks ORDER BY ...
ListBookmarks(dbok) ==
    /\ listing.ret = "none"
    /\ listing' = IF dbok
                  THEN [ret |-> "ok",
                        results |-> LET order == OrderBy(DOMAIN rows)
                                    IN  [k \in 1 .. Len(order) |-> ListItem(order[k])]]
                  ELSE [ret |-> "error", results |-> << >>]
    /\ UNCHANGED <<rows, nextId, tasks, permits, writer, pending, committed,
                   snapshot, replaced, ingests, deletes, clock, searching,
                   extraction>>

\* ------------------------------------------------------------- search

\* The q parameter: whitespace, a word, and a character the query parser
\* rejects.
Queries ==
    { << >>, <<"sp">>, <<"sp", "sp">>, <<"w">>, <<"sp", "w", "sp">>, <<"(">> }

\* The optional page and per_page parameters (u32).
Pages == {NoParam, Some(0, 0), Some(0, 1), Some(0, 2), Some(Limb - 1, Limb - 1)}
PerPages == {NoParam, Some(0, 0), Some(0, 1), Some(0, 60)}

\* The documents the query matches, in the order of their scores: any
\* documents of the searcher's snapshot in any order.
RECURSIVE Rankings(_)
Rankings(docs) ==
    {<< >>} \cup UNION {{<<d>> \o r : r \in Rankings(docs \ {d})} : d \in docs}

Clamp(x, lo, hi) == IF x < lo THEN lo ELSE IF x > hi THEN hi ELSE x

\* Variant: the query is tested for emptiness without being trimmed.
IsEmptyQueryUntrimmed(q) == q = << >>

\* params.q.trim().is_empty()
IsEmptyQuery(q) == Trim(q) = << >>

\* The search handler.  `wraps` is the build: a u32 multiplication that
\* overflows wraps around in a release build and panics in a debug build.
Search(q, p, pp, ranked, wraps) ==
    LET \* params.page.unwrap_or(1).max(1)
        page == IF ~p.some \/ (p.hi = 0 /\ p.lo = 0) THEN Some(0, 1) ELSE p
        \* params.per_page.unwrap_or(10).clamp(1, 50)
        per_page == IF ~pp.some THEN 10
                    ELSE IF pp.hi > 0 THEN 50 ELSE Clamp(pp.lo, 1, 50)
        \* page - 1
        prev == IF page.lo > 0 THEN Some(page.hi, page.lo - 1)
                ELSE Some(page.hi - 1, Limb - 1)
        \* (page - 1) * per_page
        low == prev.lo * per_page
        high == prev.hi * per_page + (low \div Limb)
        overflows == high >= Limb
        offset == Some(high % Limb, low % Limb)
        hits == Len(ranked)
        \* TopDocs::with_limit(per_page).and_offset(offset)
        skipped == IF offset.hi > 0 \/ offset.lo >= hits THEN hits ELSE offset.lo
        last == IF skipped + per_page < hits THEN skipped + per_page ELSE hits
        request == [NoSearch EXCEPT !.q = q, !.page = p, !.per_page = pp]
    IN
    /\ searching.ret = "none"
    /\ searching' =
          IF IsEmptyQuery(q) THEN
              [request EXCEPT !.ret = "ok"]
          ELSE IF overflows /\ ~wraps THEN
              [request EXCEPT !.ret = "panic"]
          ELSE IF \E k \in 1 .. Len(q) : q[k] = "(" THEN
              [request EXCEPT !.ret = "bad_request", !.offset = offset,
                               !.engine = TRUE]
          ELSE
              [request EXCEPT
                  !.ret = "ok", !.offset = offset, !.engine = TRUE,
                  !.total_hits = hits,
                  !.results = [k \in 1 .. (last - skipped) |-> ranked[skipped + k].url]]
    /\ UNCHANGED <<rows, nextId, tasks, permits, writer, pending, committed,
                   snapshot, replaced, ingests, deletes, clock, listing,
                   extraction>>

\* ---------------------------------------------------------- wall clock

\* OffsetDateTime::now_utc() reads the system clock, which moves forward and
\* can be set back; the values are the stored updated_at texts in the order
\* the ORDER BY compares them.
Tick ==
    /\ \E now \in (0 .. MaxClock) \ {clock} : clock' = now
    /\ UNCHANGED <<rows, nextId, tasks, permits, writer, pending, committed,
                   snapshot, replaced, ingests, deletes, listing, searching,
                   extraction>>

\* ------------------------------------------------------------- reader

\* index.reader() uses the default reload policy: the reader also picks up
\* a commit on its own, some time after it.
ReaderAutoReload ==
    /\ snapshot # committed
    /\ snapshot' = committed
    /\ UNCHANGED <<rows, nextId, tasks, permits, writer, pending, committed,
                   replaced, ingests, deletes,
                   clock, listing, searching, extraction>>

\* ------------------------------------------------------ specification

Next ==
    \/ \E i \in IngestIds, n \in BatchSizes : IngestBegin(i, n)
    \/ \E i \in IngestIds, raw \in RawUrls, dbok \in BOOLEAN : IngestUrl(i, raw, dbok)
    \/ \E t \in TaskIds : Acquire(t)
    \/ \E t \in TaskIds, f \in Fetches, dbok \in BOOLEAN : FetchFailed(t, f, dbok)
    \/ \E t \in TaskIds, f \in Fetches : IndexLock(t, f)
    \/ \E t \in TaskIds, ok \in BOOLEAN : IndexAdd(t, ok)
    \/ \E t \in TaskIds, ok \in BOOLEAN : IndexCommit(t, ok)
    \/ \E t \in TaskIds, ok \in BOOLEAN : IndexReload(t, ok)
    \/ \E t \in TaskIds, dbok \in BOOLEAN : MarkIndexFailed(t, ShortText, dbok)
    \/ \E t \in TaskIds, dbok \in BOOLEAN : MarkIndexed(t, dbok)
    \/ \E d \in DeleteIds, id \in 0 .. nextId, dbok \in BOOLEAN : DeleteBegin(d, id, dbok)
    \/ \E d \in DeleteIds : DeleteLock(d)
    \/ \E d \in DeleteIds, ok \in BOOLEAN : DeleteCommit(d, ok)
    \/ \E d \in DeleteIds, ok \in BOOLEAN : DeleteReload(d, ok)
    \/ \E d \in DeleteIds, dbok \in BOOLEAN : DeleteRow(d, dbok)
    \/ ReaderAutoReload

Spec == Init /\ [][Next]_vars

\* ------------------------------------------- the limiter under contention

\* One batch of LimiterTasks distinct URLs has been accepted: more tasks than
\* the semaphore has permits, none of them polled yet.
LimiterTasks == CONCURRENT_FETCH_LIMIT + ExtraTasks

InitLimiter ==
    /\ clock = 0
    /\ listing = NoListing
    /\ searching = NoSearch
    /\ extraction = NoExtraction
    /\ rows = [id \in 1 .. LimiterTasks |-> NewRow(Canon(id))]
    /\ nextId = LimiterTasks + 1
    /\ tasks = [t \in 1 .. LimiterTasks |-> NewTask(Canon(t))]
    /\ permits = CONCURRENT_FETCH_LIMIT
    /\ writer = NoHolder
    /\ pending = << >>
    /\ committed = {}
    /\ snapshot = {}
    /\ replaced = {}
    /\ ingests = [i \in IngestIds |->
                    IF i = 1
                    THEN [pc |-> "done", left |-> 0, accepted |-> LimiterTasks,
                          deduped |-> 0, ret |-> "ok"]
                    ELSE IdleIngest]
    /\ deletes = [d \in DeleteIds |-> IdleDelete]

\* The tasks run against a network that is down: every GET ends in a
\* transport error.
NextLimiter ==
    \/ \E t \in TaskIds : Acquire(t)
    \/ \E t \in TaskIds : FetchFailed(t, TransportError, TRUE)

SpecLimiter == InitLimiter /\ [][NextLimiter]_vars

\* Tasks of the batch whose GET is already in flight.
InFetch == CONCURRENT_FETCH_LIMIT - 2

\* The batch of InitLimiter a little later: the first InFetch tasks have
\* taken a permit and sent their GET, the others have not been polled yet.
InitQueued ==
    /\ clock = 0
    /\ listing = NoListing
    /\ searching = NoSearch
    /\ extraction = NoExtraction
    /\ rows = [id \in 1 .. LimiterTasks |-> NewRow(Canon(id))]
    /\ nextId = LimiterTasks + 1
    /\ tasks = [t \in 1 .. LimiterTasks |->
                  IF t <= InFetch
                  THEN [NewTask(Canon(t)) EXCEPT !.pc = "fetch", !.permit = TRUE]
                  ELSE NewTask(Canon(t))]
    /\ permits = CONCURRENT_FETCH_LIMIT - InFetch
    /\ writer = NoHolder
    /\ pending = << >>
    /\ committed = {}
    /\ snapshot = {}
    /\ replaced = {}
    /\ ingests = [i \in IngestIds |->
                    IF i = 1
                    THEN [pc |-> "done", left |-> 0, accepted |-> LimiterTasks,
                          deduped |-> 0, ret |-> "ok"]
                    ELSE IdleIngest]
    /\ deletes = [d \in DeleteIds |-> IdleDelete]

\* The runtime keeps polling the spawned tasks: a permit that stays free is
\* handed to a waiting task, and a task whose GET has ended goes on.
SpecLimiterFair ==
    /\ InitQueued
    /\ [][NextLimiter]_vars
    /\ WF_vars(\E t \in TaskIds : Acquire(t))
    /\ WF_vars(\E t \in TaskIds : FetchFailed(t, TransportError, TRUE))

\* ------------------------------------------- a URL submitted once more

\* The service after this history: the URL Canon(1) was submitted, its row (id 1) was
\* deleted while its task was fetching, the task then indexed the page, and
\* the URL has just been submitted again by call 1 (row 2, task 2).  Calls
\* that returned before call 1 are not tracked.
InitReindex ==
    /\ clock = 0
    /\ listing = NoListing
    /\ searching = NoSearch
    /\ extraction = NoExtraction
    /\ rows = (2 :> NewRow(Canon(1)))
    /\ nextId = 3
    /\ tasks = << [url |-> Canon(1), pc |-> "done", permit |-> FALSE, http |-> 200,
                   ct |-> "text/html", wrote |-> "indexed", ret |-> "ok"],
                  NewTask(Canon(1)) >>
    /\ permits = CONCURRENT_FETCH_LIMIT
    /\ writer = NoHolder
    /\ pending = << >>
    /\ committed = {[url |-> Canon(1), task |-> 1]}
    /\ snapshot = {[url |-> Canon(1), task |-> 1]}
    /\ replaced = {}
    /\ ingests = [i \in IngestIds |->
                    IF i = 1
                    THEN [pc |-> "done", left |-> 0, accepted |-> 1,
                          deduped |-> 0, ret |-> "ok"]
                    ELSE IdleIngest]
    /\ deletes = [d \in DeleteIds |-> IdleDelete]

SpecReindex == InitReindex /\ [][Next]_vars

\* --------------------------------------- ingest while the limiter is full

\* A batch of CONCURRENT_FETCH_LIMIT URLs (none of them in Urls) was accepted
\* and every task holds a permit: task 1 has its page and is inside
\* index_document, holding the writer mutex; the GETs of the others are in
\* flight.
BusyUrl(t) == Canon(NumUrls + t)

InitBusy ==
    /\ clock = 0
    /\ listing = NoListing
    /\ searching = NoSearch
    /\ extraction = NoExtraction
    /\ rows = [id \in 1 .. CONCURRENT_FETCH_LIMIT |-> NewRow(BusyUrl(id))]
    /\ nextId = CONCURRENT_FETCH_LIMIT + 1
    /\ tasks = [t \in 1 .. CONCURRENT_FETCH_LIMIT |->
                  IF t = 1
                  THEN [NewTask(BusyUrl(t)) EXCEPT !.pc = "add", !.permit = TRUE,
                                                   !.http = 200, !.ct = "text/html"]
                  ELSE [NewTask(BusyUrl(t)) EXCEPT !.pc = "fetch", !.permit = TRUE]]
    /\ permits = 0
    /\ writer = TaskHolder(1)
    /\ pending = << [op |-> "del", url |-> BusyUrl(1), task |-> 1] >>
    /\ committed = {}
    /\ snapshot = {}
    /\ replaced = {}
    /\ ingests = [i \in IngestIds |-> IdleIngest]
    /\ deletes = [d \in DeleteIds |-> IdleDelete]

\* The servers of the GETs in flight do not answer: a GET ends in a transport
\* error when the client's timeout (the same for every request) expires, so
\* the GETs time out in the order they were sent.
FetchTimeout(t) ==
    /\ \A s \in 1 .. (t - 1) : tasks[s].pc # "fetch"
    /\ FetchFailed(t, TransportError, TRUE)

NextBusy ==
    \/ \E i \in IngestIds, n \in BatchSizes : IngestBegin(i, n)
    \/ \E i \in IngestIds, raw \in RawUrls, dbok \in BOOLEAN : IngestUrl(i, raw, dbok)
    \/ \E t \in TaskIds : Acquire(t)
    \/ \E t \in TaskIds : FetchTimeout(t)
    \/ \E t \in TaskIds, ok \in BOOLEAN : IndexAdd(t, ok)
    \/ \E t \in TaskIds, ok \in BOOLEAN : IndexCommit(t, ok)
    \/ \E t \in TaskIds, ok \in BOOLEAN : IndexReload(t, ok)
    \/ \E t \in TaskIds : MarkIndexFailed(t, ShortText, TRUE)
    \/ \E t \in TaskIds : MarkIndexed(t, TRUE)

\* The handler future of a request is polled until it returns; nothing is
\* assumed about the background tasks.
SpecBusy ==
    /\ InitBusy
    /\ [][NextBusy]_vars
    /\ \A i \in IngestIds :
          WF_vars(\E raw \in RawUrls, dbok \in BOOLEAN : IngestUrl(i, raw, dbok))

\* ------------------------------------ one URL submitted by two calls at once

\* Raw strings of the URL Canon(1): with or without padding and fragment.
SameUrlRaws ==
    { pad \o Canon(1) \o frag \o pad :
        pad \in {<< >>, <<"sp">>}, frag \in {<< >>, <<"#", "a">>} }

\* Two requests, each with a batch of one URL, have entered the loop of
\* ingest_urls; the table is empty.
InitRace ==
    /\ clock = 0
    /\ listing = NoListing
    /\ searching = NoSearch
    /\ extraction = NoExtraction
    /\ rows = << >>
    /\ nextId = 1
    /\ tasks = << >>
    /\ permits = CONCURRENT_FETCH_LIMIT
    /\ writer = NoHolder
    /\ pending = << >>
    /\ committed = {}
    /\ snapshot = {}
    /\ replaced = {}
    /\ ingests = [i \in IngestIds |-> [IdleIngest EXCEPT !.pc = "loop", !.left = 1]]
    /\ deletes = [d \in DeleteIds |-> IdleDelete]

\* Both submit the URL Canon(1); the spawned tasks run; no delete request arrives.
NextRace ==
    \/ \E i \in IngestIds, raw \in SameUrlRaws, dbok \in BOOLEAN : IngestUrl(i, raw, dbok)
    \/ \E t \in TaskIds : Acquire(t)
    \/ \E t \in TaskIds, f \in Fetches, dbok \in BOOLEAN : FetchFailed(t, f, dbok)
    \/ \E t \in TaskIds, f \in Fetches : IndexLock(t, f)
    \/ \E t \in TaskIds, ok \in BOOLEAN : IndexAdd(t, ok)
    \/ \E t \in TaskIds, ok \in BOOLEAN : IndexCommit(t, ok)
    \/ \E t \in TaskIds, ok \in BOOLEAN : IndexReload(t, ok)
    \/ \E t \in TaskIds, dbok \in BOOLEAN : MarkIndexFailed(t, ShortText, dbok)
    \/ \E t \in TaskIds, dbok \in BOOLEAN : MarkIndexed(t, dbok)
    \/ ReaderAutoReload

SpecRace == InitRace /\ [][NextRace]_vars

\* ------------------------------- one URL submitted in different spellings

\* Every URL of every batch is a spelling of Canon(1); the spawned task runs;
\* no delete request arrives.
NextFragment ==
    \/ \E i \in IngestIds, n \in BatchSizes : IngestBegin(i, n)
    \/ \E i \in IngestIds, raw \in SameUrlRaws, dbok \in BOOLEAN : IngestUrl(i, raw, dbok)
    \/ \E t \in TaskIds : Acquire(t)
    \/ \E t \in TaskIds, f \in Fetches, dbok \in BOOLEAN : FetchFailed(t, f, dbok)
    \/ \E t \in TaskIds, f \in Fetches : IndexLock(t, f)
    \/ \E t \in TaskIds, ok \in BOOLEAN : IndexAdd(t, ok)
    \/ \E t \in TaskIds, ok \in BOOLEAN : IndexCommit(t, ok)
    \/ \E t \in TaskIds, ok \in BOOLEAN : IndexReload(t, ok)
    \/ \E t \in TaskIds, dbok \in BOOLEAN : MarkIndexFailed(t, ShortText, dbok)
    \/ \E t \in TaskIds, dbok \in BOOLEAN : MarkIndexed(t, dbok)
    \/ ReaderAutoReload

SpecFragment == Init /\ [][NextFragment]_vars

\* ------------------------------------------- batches at the size limit

\* payload.urls.len() of the requests: empty, the largest accepted size, and
\* one more.
BoundarySizes == {0, MAX_URLS, MAX_URLS + 1}

\* The handlers of the requests run; the spawned tasks have not been polled
\* yet and the database answers.
NextBatch ==
    \/ \E i \in IngestIds, n \in BoundarySizes : IngestBegin(i, n)
    \/ \E i \in IngestIds, raw \in RawUrls : IngestUrl(i, raw, TRUE)

SpecBatch == Init /\ [][NextBatch]_vars

\* ------------------------------------------------- the HTTP controllers

\* The Authorization header of a request: absent, or a string made of the
\* scheme prefixes "Bearer " and "Basic ", whitespace, the configured
\* admin token and another token.
NoHeader == <<"none">>
AdminToken == <<"secret">>
Headers ==
    { NoHeader, << >>, <<"secret">>, <<"Basic ", "secret">>, <<"Bearer ">>,
      <<"Bearer ", "sp">>, <<"Bearer ", "wrong">>, <<"Bearer ", "secret", "wrong">>,
      <<"Bearer ", "secret">>, <<"Bearer ", "sp", "secret", "sp">> }

\* AuthService::authorize: None is Ok(()), otherwise the message of the
\* unauthorized error.
Authorize(header) ==
    IF header = NoHeader THEN "missing authorization header"
    ELSE LET token == IF header # << >> /\ Head(header) = "Bearer "
                      THEN Trim(Tail(header))           \* strip_prefix, trim
                      ELSE << >>                        \* unwrap_or_default
         IN  IF token = << >> THEN "missing admin token"
             ELSE IF token # AdminToken THEN "invalid admin token"
             ELSE "None"

\* Variant: the controller calls the service without consulting authorize.
IngestRequestNoAuth(i, header, n) == IngestBegin(i, n)

\* controllers::ingest::ingest_urls
IngestRequest(i, header, n) ==
    IF Authorize(header) = "None" THEN IngestBegin(i, n)
    ELSE /\ ingests[i].pc = "idle"
         /\ \A j \in 1 .. (i - 1) : ingests[j].pc # "idle"
         /\ ingests' = [ingests EXCEPT ![i] = [@ EXCEPT !.pc = "done", !.ret = "unauthorized"]]
         /\ UNCHANGED <<rows, nextId, tasks, permits, writer, pending, committed,
                        snapshot, replaced, deletes,
                   clock, listing, searching, extraction>>

\* controllers::bookmarks::delete_bookmark
DeleteRequest(d, header, id, dbok) ==
    IF Authorize(header) = "None" THEN DeleteBegin(d, id, dbok)
    ELSE /\ deletes[d].pc = "idle"
         /\ \A e \in 1 .. (d - 1) : deletes[e].pc # "idle"
         /\ deletes' = [deletes EXCEPT ![d] =
                           [@ EXCEPT !.pc = "done", !.id = id, !.ret = "unauthorized"]]
         /\ UNCHANGED <<rows, nextId, tasks, permits, writer, pending, committed,
                        snapshot, replaced, ingests,
                   clock, listing, searching, extraction>>

\* The service behind its controllers: every ingest and delete request
\* carries headers.  The database and the index engine answer without
\* error.
NextAuth ==
    \/ \E i \in IngestIds, h \in Headers, n \in BatchSizes : IngestRequest(i, h, n)
    \/ \E i \in IngestIds, raw \in RawUrls : IngestUrl(i, raw, TRUE)
    \/ \E t \in TaskIds : Acquire(t)
    \/ \E t \in TaskIds, f \in Fetches : FetchFailed(t, f, TRUE)
    \/ \E t \in TaskIds, f \in Fetches : IndexLock(t, f)
    \/ \E t \in TaskIds : IndexAdd(t, TRUE)
    \/ \E t \in TaskIds : IndexCommit(t, TRUE)
    \/ \E t \in TaskIds : IndexReload(t, TRUE)
    \/ \E t \in TaskIds : MarkIndexed(t, TRUE)
    \/ \E d \in DeleteIds, h \in Headers, id \in 0 .. nextId : DeleteRequest(d, h, id, TRUE)
    \/ \E d \in DeleteIds : DeleteLock(d)
    \/ \E d \in DeleteIds : DeleteCommit(d, TRUE)
    \/ \E d \in DeleteIds : DeleteReload(d, TRUE)
    \/ \E d \in DeleteIds : DeleteRow(d, TRUE)
    \/ ReaderAutoReload

SpecAuth == Init /\ [][NextAuth]_vars

\* ------------------------------------------------------ listing the table

\* A bookmark ingested earlier failed with a transport error at time 1; the
\* call that submitted it is not tracked.
InitList ==
    /\ clock = 1
    /\ listing = NoListing
    /\ searching = NoSearch
    /\ extraction = NoExtraction
    /\ rows = (1 :> [url |-> BusyUrl(1), status |-> "failed", http_status |-> 0,
                     content_type |-> "", error |-> "request error",
                     error_chars |-> ShortText,
                     updated_at |-> 1])
    /\ nextId = 2
    /\ tasks = << [url |-> BusyUrl(1), pc |-> "done", permit |-> FALSE,
                   http |-> NullInt, ct |-> NULL, wrote |-> "failed", ret |-> "ok"] >>
    /\ permits = CONCURRENT_FETCH_LIMIT
    /\ writer = NoHolder
    /\ pending = << >>
    /\ committed = {}
    /\ snapshot = {}
    /\ replaced = {}
    /\ ingests = [i \in IngestIds |-> IdleIngest]
    /\ deletes = [d \in DeleteIds |-> IdleDelete]

\* Batches are ingested, their GETs fail, bookmarks are deleted, the clock
\* moves, and the table is listed once at any moment; the database and the
\* index engine answer without error.
NextList ==
    \/ \E i \in IngestIds, n \in BatchSizes : IngestBegin(i, n)
    \/ \E i \in IngestIds, raw \in RawUrls : IngestUrl(i, raw, TRUE)
    \/ \E t \in TaskIds : Acquire(t)
    \/ \E t \in TaskIds : FetchFailed(t, TransportError, TRUE)
    \/ \E d \in DeleteIds, id \in 0 .. nextId : DeleteBegin(d, id, TRUE)
    \/ \E d \in DeleteIds : DeleteLock(d)
    \/ \E d \in DeleteIds : DeleteCommit(d, TRUE)
    \/ \E d \in DeleteIds : DeleteReload(d, TRUE)
    \/ \E d \in DeleteIds : DeleteRow(d, TRUE)
    \/ \E dbok \in BOOLEAN : ListBookmarks(dbok)
    \/ Tick

SpecList == InitList /\ [][NextList]_vars

\* -------------------------------------------------- searching the index

\* Pages are ingested and indexed, and one search request arrives at any
\* moment; the servers, the database and the index engine answer without
\* error.
NextSearch ==
    \/ \E i \in IngestIds, n \in BatchSizes : IngestBegin(i, n)
    \/ \E i \in IngestIds, raw \in Urls : IngestUrl(i, raw, TRUE)
    \/ \E t \in TaskIds : Acquire(t)
    \/ \E t \in TaskIds, f \in Fetches : IndexLock(t, f)
    \/ \E t \in TaskIds : IndexAdd(t, TRUE)
    \/ \E t \in TaskIds : IndexCommit(t, TRUE)
    \/ \E t \in TaskIds : IndexReload(t, TRUE)
    \/ \E t \in TaskIds : MarkIndexed(t, TRUE)
    \/ \E q \in Queries, p \in Pages, pp \in PerPages, ranked \in Rankings(snapshot),
          wraps \in BOOLEAN : Search(q, p, pp, ranked, wraps)

SpecSearch == Init /\ [][NextSearch]_vars

\* ------------------------------------------------------- extraction

\* Option<String>
NoneText == [some |-> FALSE, value |-> << >>]
SomeText(s) == [some |-> TRUE, value |-> s]

Ellipsis == "..."
Repeat(c, n) == [k \in 1 .. n |-> c]
Take(s, n) == SubSeq(s, 1, IF n < Len(s) THEN n ELSE Len(s))

\* The excerpt length process_url asks for.
EXCERPT_CHARS == 280

\* Cleaned body texts: every string of at most MaxTextLen characters, and
\* texts around EXCERPT_CHARS characters.
Texts ==
    UNION {[1 .. n -> {"x", "y"}] : n \in 0 .. MaxTextLen}
    \cup {Repeat("x", n) : n \in {EXCERPT_CHARS - 1, EXCERPT_CHARS,
                                   EXCERPT_CHARS + 1, EXCERPT_CHARS + 20}}

MaxLens == (0 .. MaxTextLen) \cup {EXCERPT_CHARS}

\* text.chars().take(max_len).chain(once('...')): the ellipsis is appended to
\* every text that is not empty.
make_excerpt(text, max_len) ==
    IF text = << >> THEN NoneText
    ELSE SomeText(Take(text, max_len) \o <<Ellipsis>>)

UnchangedStore ==
    UNCHANGED <<rows, nextId, tasks, permits, writer, pending, committed,
                snapshot, replaced, ingests, deletes, clock, listing, searching>>

\* The state of Init with a text handed to an extraction function.
InitExtraction(fn, args) ==
    /\ clock = 0
    /\ listing = NoListing
    /\ searching = NoSearch
    /\ extraction = [fn |-> fn, args |-> args, returned |-> FALSE]
    /\ rows = << >>
    /\ nextId = 1
    /\ tasks = << >>
    /\ permits = CONCURRENT_FETCH_LIMIT
    /\ writer = NoHolder
    /\ pending = << >>
    /\ committed = {}
    /\ snapshot = {}
    /\ replaced = {}
    /\ ingests = [i \in IngestIds |-> IdleIngest]
    /\ deletes = [d \in DeleteIds |-> IdleDelete]

\* The called function returns `out`.
Return(fn, out) ==
    /\ extraction.fn = fn
    /\ ~extraction.returned
    /\ extraction' = [fn |-> fn, args |-> extraction.args, returned |-> TRUE,
                      out |-> out]
    /\ UnchangedStore

InitExcerpt ==
    \E text \in Texts, max_len \in MaxLens :
        InitExtraction("make_excerpt", [text |-> text, max_len |-> max_len])

MakeExcerpt ==
    Return("make_excerpt", make_excerpt(extraction.args.text, extraction.args.max_len))

SpecExcerpt == InitExcerpt /\ [][MakeExcerpt]_vars

\* -------------------------------------------------------------- title

\* The separators of a site-name suffix, in the order they are tried.
Delimiters ==
    << <<"sp", "em-dash", "sp">>, <<"sp", "|", "sp">>, <<"sp", "-", "sp">>,
       <<"sp", "middot", "sp">> >>

\* str::len counts the bytes of the UTF-8 encoding.
Utf8Len(c) ==
    IF c = "e-acute" \/ c = "middot" THEN 2 ELSE IF c = "em-dash" THEN 3 ELSE 1

RECURSIVE ByteLen(_)
ByteLen(s) == IF s = << >> THEN 0 ELSE Utf8Len(Head(s)) + ByteLen(Tail(s))

\* Index of the first occurrence of d in s at or after k, or 0.
RECURSIVE Find(_, _, _)
Find(s, d, k) ==
    IF k + Len(d) - 1 > Len(s) THEN 0
    ELSE IF SubSeq(s, k, k + Len(d) - 1) = d THEN k
    ELSE Find(s, d, k + 1)

\* The loop over the delimiters, from the k-th on.
RECURSIVE TrimSuffixFrom(_, _)
TrimSuffixFrom(trimmed, k) ==
    IF k > Len(Delimiters) THEN SomeText(trimmed)
    ELSE LET at == Find(trimmed, Delimiters[k], 1)
             left == Trim(SubSeq(trimmed, 1, at - 1))
         IN  IF at # 0 /\ ByteLen(left) >= 6 THEN SomeText(left)
             ELSE TrimSuffixFrom(trimmed, k + 1)

trim_site_suffix(title) ==
    LET trimmed == Trim(title) IN
    IF trimmed = << >> THEN NoneText ELSE TrimSuffixFrom(trimmed, 1)

\* select_meta_content and select_text: the content attribute or the text
\* of the first matching node, trimmed, kept when it is not empty.
Selected(node) ==
    IF node.some /\ Trim(node.value) # << >> THEN SomeText(Trim(node.value))
    ELSE NoneText

\* extract_title: the first candidate there is, of og:title, h1 and title.
extract_title(document) ==
    LET og == Selected(document.og)
        h1 == Selected(document.h1)
        title == Selected(document.title) IN
    IF og.some THEN og
    ELSE IF h1.some THEN h1
    ELSE IF title.some THEN trim_site_suffix(title.value)
    ELSE NoneText

\* The content attribute of a document's first meta element of a kind.
Metas(c) == {NoneText, SomeText(<<"sp">>), SomeText(<<"sp", c, "sp">>)}

\* The text of a document's first h1 element.
Headings == {NoneText, SomeText(<< >>), SomeText(<<"h", "sp">>)}

\* The text of a document's title element: a left-hand side of 0 to 10
\* characters, ASCII or not, a separator or none, and a site name.
TitleTexts ==
    { pad \o left \o d \o site \o pad :
        pad \in {<< >>, <<"sp">>},
        left \in {Repeat("x", n) : n \in {0, 2, 5, 6, 10}}
                 \cup {Repeat("e-acute", n) : n \in {3, 5, 6}}
                 \cup {<<"x", "x", "x", "x", "x", "sp">>},
        d \in {Delimiters[k] : k \in 1 .. Len(Delimiters)} \cup {<< >>},
        site \in {<<"x">>, <<"x", "sp", "|", "sp", "x">>} }

Documents ==
    [og : Metas("o"), twitter : Metas("t"), h1 : Headings,
     title : {NoneText} \cup {SomeText(t) : t \in TitleTexts}]

InitTitle == \E document \in Documents : InitExtraction("extract_title", document)

ExtractTitle == Return("extract_title", extract_title(extraction.args))

SpecTitle == InitTitle /\ [][ExtractTitle]_vars

\* ----------------------------------------------------- classification

\* Content-Type headers: a media type in either case, bare, with a
\* parameter or with further characters, with or without whitespace around.
MediaTypes ==
    {"text/html", "TEXT/HTML", "application/xhtml+xml", "text/plain",
     "application/octet-stream", "application/json", "image/png"}

ContentTypes ==
    {<< >>, <<"sp">>}
    \cup { pad \o <<type>> \o more \o pad :
             pad \in {<< >>, <<"sp">>},
             type \in MediaTypes,
             more \in {<< >>, <<";", "charset=utf-8">>, <<"x">>} }

\* to_ascii_lowercase, character by character.
Lower(c) ==
    IF c = "TEXT/HTML" THEN "text/html"
    ELSE IF c = "H" THEN "h"
    ELSE c

ToAsciiLowercase(s) == [k \in DOMAIN s |-> Lower(s[k])]

StartsWith(s, prefix) ==
    Len(s) >= Len(prefix) /\ SubSeq(s, 1, Len(prefix)) = prefix

\* Response bodies, byte by byte: leading whitespace, a byte order mark or
\* not, and the first bytes of the content.
SNIFF_BYTES == 512
Bom == <<"EF", "BB", "BF">>

Bodies ==
    { Repeat("sp", n) \o bom \o content :
        n \in {0, 1, SNIFF_BYTES - 3, SNIFF_BYTES - 1, SNIFF_BYTES},
        bom \in {<< >>, Bom},
        content \in {<< >>, <<"<">>, <<"<", "H", "t", "m", "l", ">">>,
                     <<"<", "!", "d">>, <<"{", "<">>, <<"x">>} }

\* String::from_utf8_lossy: a whole byte order mark decodes to U+FEFF, a
\* stray or cut one to U+FFFD per byte.
FromUtf8Lossy(bytes) ==
    LET BomAt(k) == k >= 1 /\ k + 2 <= Len(bytes) /\ SubSeq(bytes, k, k + 2) = Bom
        chars == [k \in 1 .. Len(bytes) |->
                    IF BomAt(k) THEN "feff"
                    ELSE IF BomAt(k - 1) \/ BomAt(k - 2) THEN ""
                    ELSE IF bytes[k] \in {"EF", "BB", "BF"} THEN "fffd"
                    ELSE bytes[k]]
    IN  SelectSeq(chars, LAMBDA c : c # "")

\* trim_start_matches(|c| c.is_whitespace() || c == '\u{feff}')
TrimStartMatches(s) ==
    LET kept == {k \in 1 .. Len(s) : s[k] \notin {"sp", "feff"}} IN
    IF kept = {} THEN << >>
    ELSE SubSeq(s, CHOOSE k \in kept : \A j \in kept : k <= j, Len(s))

\* The prefixes looks_like_html knows ("<!doctype", "<html", ..., "<").
MarkupPrefixes == {<<"<", "!", "d">>, <<"<", "h", "t", "m", "l">>, <<"<">>}

looks_like_html(body) ==
    LET prefix == Take(body, SNIFF_BYTES)
        trimmed == ToAsciiLowercase(TrimStartMatches(FromUtf8Lossy(prefix)))
    IN  \E p \in MarkupPrefixes : StartsWith(trimmed, p)

\* Variant: every type that is not on the allowlist is sniffed.
IsHtmlContentSniffAll(content_type, body) ==
    LET ct == ToAsciiLowercase(Trim(content_type)) IN
    IF StartsWith(ct, <<"text/html">>) \/ StartsWith(ct, <<"application/xhtml+xml">>)
    THEN TRUE
    ELSE looks_like_html(body)

is_html_content(content_type, body) ==
    LET ct == ToAsciiLowercase(Trim(content_type)) IN
    IF StartsWith(ct, <<"text/html">>) \/ StartsWith(ct, <<"application/xhtml+xml">>)
    THEN TRUE
    ELSE IF \/ ct = << >>
            \/ StartsWith(ct, <<"text/plain">>)
            \/ StartsWith(ct, <<"application/octet-stream">>)
    THEN looks_like_html(body)
    ELSE FALSE

InitClassify ==
    \E content_type \in ContentTypes, body \in Bodies :
        InitExtraction("is_html_content", [content_type |-> content_type, body |-> body])

Classify ==
    Return("is_html_content",
           is_html_content(extraction.args.content_type, extraction.args.body))

SpecClassify == InitClassify /\ [][Classify]_vars

\* --------------------------------------------------------- clean_text

\* char::is_whitespace
Whitespace == {"sp", "tab", "nl"}

\* Body texts as html2text renders them.
BodyTexts == UNION {[1 .. n -> {"sp", "tab", "x"}] : n \in 0 .. MaxBodyLen}

\* The loop of clean_text over the characters left, with its flag.
RECURSIVE Collapse(_, _)
Collapse(input, prev_space) ==
    IF input = << >> THEN << >>
    ELSE IF Head(input) \in Whitespace
    THEN (IF prev_space THEN << >> ELSE <<"sp">>) \o Collapse(Tail(input), TRUE)
    ELSE <<Head(input)>> \o Collapse(Tail(input), FALSE)

\* Variant: the collapsed text is returned untrimmed.
CleanTextUntrimmed(input) == Collapse(input, FALSE)

clean_text(input) == Trim(Collapse(input, FALSE))

InitClean == \E input \in BodyTexts : InitExtraction("clean_text", input)

CleanText == Return("clean_text", clean_text(extraction.args))

SpecClean == InitClean /\ [][CleanText]_vars

\* ----------------------------------------------------- error messages

\* Lengths of the texts the failure messages are made of, around the caps.
ErrorLengths ==
    {0, ShortText, PREVIEW_CHARS, PREVIEW_CHARS + 1, MAX_CHARS, MAX_CHARS + 1,
     2 * MAX_CHARS}

\* Pages are ingested and every step of a task can fail, with error texts
\* of every length; the database answers.
NextErrors ==
    \/ \E i \in IngestIds, n \in BatchSizes : IngestBegin(i, n)
    \/ \E i \in IngestIds, raw \in Urls : IngestUrl(i, raw, TRUE)
    \/ \E t \in TaskIds : Acquire(t)
    \/ \E t \in TaskIds, f \in FetchesOf(ErrorLengths) : FetchFailed(t, f, TRUE)
    \/ \E t \in TaskIds, f \in Fetches : IndexLock(t, f)
    \/ \E t \in TaskIds, ok \in BOOLEAN : IndexAdd(t, ok)
    \/ \E t \in TaskIds, ok \in BOOLEAN : IndexCommit(t, ok)
    \/ \E t \in TaskIds, ok \in BOOLEAN : IndexReload(t, ok)
    \/ \E t \in TaskIds, chars \in ErrorLengths : MarkIndexFailed(t, chars, TRUE)
    \/ \E t \in TaskIds : MarkIndexed(t, TRUE)

SpecErrors == Init /\ [][NextErrors]_vars

\* --------------------------------------- re-submission as time passes

\* URLs that normalize are ingested and processed with every outcome of the
\* network, the index engine and the database, while the clock moves.
NextDedup ==
    \/ \E i \in IngestIds, n \in BatchSizes : IngestBegin(i, n)
    \/ \E i \in IngestIds, raw \in RawUrls, dbok \in BOOLEAN :
          NormalizeUrl(raw) # NoUrl /\ IngestUrl(i, raw, dbok)
    \/ \E t \in TaskIds : Acquire(t)
    \/ \E t \in TaskIds, f \in Fetches, dbok \in BOOLEAN : FetchFailed(t, f, dbok)
    \/ \E t \in TaskIds, f \in Fetches : IndexLock(t, f)
    \/ \E t \in TaskIds, ok \in BOOLEAN : IndexAdd(t, ok)
    \/ \E t \in TaskIds, ok \in BOOLEAN : IndexCommit(t, ok)
    \/ \E t \in TaskIds, ok \in BOOLEAN : IndexReload(t, ok)
    \/ \E t \in TaskIds, dbok \in BOOLEAN : MarkIndexFailed(t, ShortText, dbok)
    \/ \E t \in TaskIds, dbok \in BOOLEAN : MarkIndexed(t, dbok)
    \/ ReaderAutoReload
    \/ Tick

SpecDedup == Init /\ [][NextDedup]_vars

\* ------------------------------------ one bookmark deleted by several calls

\* The delete calls that race for the bookmark.
Racers == 1 .. (MaxDeletes + 1)

\* One URL has been accepted: its row is queued and its task spawned, and
\* the delete requests have not arrived yet.
InitDeleteRace ==
    /\ clock = 0
    /\ listing = NoListing
    /\ searching = NoSearch
    /\ extraction = NoExtraction
    /\ rows = (1 :> NewRow(Canon(1)))
    /\ nextId = 2
    /\ tasks = << NewTask(Canon(1)) >>
    /\ permits = CONCURRENT_FETCH_LIMIT
    /\ writer = NoHolder
    /\ pending = << >>
    /\ committed = {}
    /\ snapshot = {}
    /\ replaced = {}
    /\ ingests = [i \in IngestIds |->
                    IF i = 1
                    THEN [pc |-> "done", left |-> 0, accepted |-> 1,
                          deduped |-> 0, ret |-> "ok"]
                    ELSE IdleIngest]
    /\ deletes = [d \in Racers |-> IdleDelete]

\* The task runs with every outcome; each delete call asks for bookmark 1 at
\* any moment, and the database and the index engine answer it without error.
NextDeleteRace ==
    \/ \E t \in TaskIds : Acquire(t)
    \/ \E t \in TaskIds, f \in Fetches, dbok \in BOOLEAN : FetchFailed(t, f, dbok)
    \/ \E t \in TaskIds, f \in Fetches : IndexLock(t, f)
    \/ \E t \in TaskIds, ok \in BOOLEAN : IndexAdd(t, ok)
    \/ \E t \in TaskIds, ok \in BOOLEAN : IndexCommit(t, ok)
    \/ \E t \in TaskIds, ok \in BOOLEAN : IndexReload(t, ok)
    \/ \E t \in TaskIds, dbok \in BOOLEAN : MarkIndexFailed(t, ShortText, dbok)
    \/ \E t \in TaskIds, dbok \in BOOLEAN : MarkIndexed(t, dbok)
    \/ \E d \in Racers : DeleteBegin(d, 1, TRUE)
    \/ \E d \in Racers : DeleteLock(d)
    \/ \E d \in Racers : DeleteCommit(d, TRUE)
    \/ \E d \in Racers : DeleteReload(d, TRUE)
    \/ \E d \in Racers : DeleteRow(d, TRUE)
    \/ ReaderAutoReload

SpecDeleteRace == InitDeleteRace /\ [][NextDeleteRace]_vars

\* ====================================================== properties

RowIds == DOMAIN rows

\* ---------------------------------------------------------------- C1
UniqueUrls ==
    \A a \in RowIds, b \in RowIds : rows[a].url = rows[b].url => a = b

\* ingest call i handles one URL of its batch in this step.
Handles(i) ==
    /\ ingests[i].pc = "loop"
    /\ ingests'[i].left = ingests[i].left - 1

\* The URL is accepted: one row is inserted, for a URL no row held.
CountedAccepted(i) ==
    /\ ingests'[i].accepted = ingests[i].accepted + 1
    /\ ingests'[i].deduped = ingests[i].deduped
    /\ \E id \in DOMAIN rows' \ RowIds :
          /\ DOMAIN rows' = RowIds \cup {id}
          /\ \A old \in RowIds : rows'[old] = rows[old] /\ rows[old].url # rows'[id].url
          /\ rows'[id].status = "queued"

\* The URL is deduped: the table is left as it was.
CountedDeduped(i) ==
    /\ ingests'[i].accepted = ingests[i].accepted
    /\ ingests'[i].deduped = ingests[i].deduped + 1
    /\ rows' = rows

\* C1: the Record Store holds at most one row per normalized URL in every
\* reachable state, and every submission handled by ingest_urls is either
\* accepted, inserting a row for a URL that had none, or counted as deduped
\* with the table unchanged; a URL whose row exists is never accepted.
C1_DedupInvariant ==
    /\ []UniqueUrls
    /\ [][\A i \in IngestIds :
            /\ Handles(i) => CountedAccepted(i) \/ CountedDeduped(i)
            /\ ingests'[i].accepted # ingests[i].accepted => Handles(i)]_vars

\* A second call submitted a URL the first call had inserted and counted it
\* as deduped.
C1_Witness ==
    /\ ingests[1].pc = "done" /\ ingests[1].accepted = 1 /\ ingests[1].deduped = 0
    /\ ingests[2].pc = "done" /\ ingests[2].accepted = 0 /\ ingests[2].deduped = 1
    /\ Cardinality(RowIds) = 1

\* ---------------------------------------------------------------- C2
InFlight == {t \in TaskIds : tasks[t].pc # "done"}

\* C2: at any time at most one background task is in flight for a given
\* normalized URL.
C2_OneTaskPerUrl ==
    \A t1 \in InFlight, t2 \in InFlight : tasks[t1].url = tasks[t2].url => t1 = t2

\* ---------------------------------------------------------------- C3
\* C3: the status of a row changes at most once, from queued to indexed or
\* failed: no step changes the status of a row that is indexed or failed.
C3_OneShotStatus ==
    [][\A id \in RowIds \cap DOMAIN rows' :
          /\ rows[id].status # "queued" => rows'[id].status = rows[id].status
          /\ rows'[id].status \in {"queued", "indexed", "failed"}]_vars

\* ---------------------------------------------------------------- C4
\* C4: the committed index contains at most one document per URL key in every
\* reachable state.
C4_IndexKeyUnique ==
    \A d1 \in committed, d2 \in committed : d1.url = d2.url => d1 = d2

\* A URL has been indexed a second time: the document of the later task is
\* committed and the document of the earlier one is gone.
C4_Witness ==
    \E t1 \in TaskIds, t2 \in TaskIds :
        /\ t1 # t2
        /\ tasks[t1].url = tasks[t2].url
        /\ t1 \in replaced
        /\ Doc(t1) \notin committed
        /\ Doc(t2) \in committed

\* ---------------------------------------------------------------- C5
Holders == {t \in TaskIds : tasks[t].permit}

\* C5: the tasks that hold a fetch permit are never more than the limiter
\* capacity, the semaphore accounts for each of them, and a task whose GET is
\* in flight (or that is past it and has not returned) holds a permit.
C5_FetchBound ==
    /\ Cardinality(Holders) <= CONCURRENT_FETCH_LIMIT
    /\ permits = CONCURRENT_FETCH_LIMIT - Cardinality(Holders)
    /\ \A t \in TaskIds : tasks[t].pc \notin {"acquire", "done"} => tasks[t].permit

\* Every permit is taken and a task is still waiting for one.
C5_Witness ==
    /\ permits = 0
    /\ Cardinality(Holders) = CONCURRENT_FETCH_LIMIT
    /\ \E t \in TaskIds : tasks[t].pc = "acquire"

\* ---------------------------------------------------------------- C6
\* C6: once delete(id) has returned success, and for as long as the URL has
\* not been submitted again (no row holds it), no search returns a document
\* for the URL of the deleted bookmark, and the row is not listed.
C6_DeleteRemovesBoth ==
    \A d \in DeleteIds :
        (deletes[d].pc = "done" /\ deletes[d].ret = "ok")
        => /\ deletes[d].id \notin RowIds
           /\ ~HasRow(deletes[d].url) => deletes[d].url \notin SearchUrls

\* ---------------------------------------------------------------- C7
IndexHolds(u) == \E doc \in committed \cup snapshot : doc.url = u

\* C7: delete(id) removes the row only after delete-by-key, commit and reader
\* refresh have succeeded: a delete that fails in one of those steps returns
\* an error and leaves the table as it was, a delete reaches its DELETE
\* statement only with the document gone from the commit and from the reader,
\* and a row disappears only in the DELETE step of a delete for its id.
C7_IndexBeforeRow ==
    [][/\ \A d \in DeleteIds :
            /\ (deletes[d].pc \in {"lock", "commit", "reload"} /\ deletes'[d].pc = "done")
               => deletes'[d].ret = "error" /\ rows' = rows
            /\ (deletes[d].pc # "delete_row" /\ deletes'[d].pc = "delete_row")
               => deletes[d].pc = "reload" /\ ~IndexHolds(deletes[d].url)'
       /\ \A id \in RowIds \ DOMAIN rows' :
            \E d \in DeleteIds :
                /\ deletes[d].pc = "delete_row" /\ deletes[d].id = id
                /\ deletes'[d].pc = "done" /\ deletes'[d].ret = "ok"]_vars

\* A delete whose commit failed has returned an error: its delete_term is
\* still buffered and its row is still in the table.
C7_Witness ==
    \E d \in DeleteIds :
        /\ deletes[d].pc = "done" /\ deletes[d].ret = "error"
        /\ deletes[d].id \in RowIds
        /\ rows[deletes[d].id].status = "indexed"
        /\ \E k \in 1 .. Len(pending) : pending[k] = DelOp(deletes[d].url)

\* ---------------------------------------------------------------- C8
\* C8: a task whose index upsert failed does not set its row to indexed: its
\* next step marks the row of its URL failed with the index error and ends
\* the task.
C8_IndexFailureMarksFailed ==
    [][\A t \in TaskIds :
          (tasks[t].pc = "index_failed" /\ tasks'[t] # tasks[t])
          => /\ tasks'[t].pc = "done"
             /\ \A id \in RowIds :
                   rows[id].url = tasks[t].url
                   => /\ id \in DOMAIN rows'
                      /\ rows'[id].status = "failed"
                      /\ rows'[id].error = "index error"]_vars

\* ---------------------------------------------------------------- C9
\* C9: when a task ends it returns no error to its spawner, and the row of
\* its URL, if there is one, is indexed or failed, not queued.
C9_TerminalOnExit ==
    [][\A t \in TaskIds :
          (tasks[t].pc # "done" /\ tasks'[t].pc = "done")
          => /\ tasks'[t].ret = "ok"
             /\ \A id \in DOMAIN rows' :
                   rows'[id].url = tasks[t].url => rows'[id].status # "queued"]_vars

\* --------------------------------------------------------------- C10
\* The task's upsert has returned Ok and the task is about to write, or has
\* written, status = 'indexed'.
Upserted(t) == tasks[t].pc = "mark_indexed" \/ tasks[t].wrote = "indexed"

\* C10: from the moment index_document returns Ok, with the task still
\* holding its permit, and until a delete or another upsert issues a
\* delete_term for the same URL, the reader's snapshot contains the task's
\* document.
C10_ReadAfterWrite ==
    \A t \in TaskIds :
        /\ tasks[t].pc = "mark_indexed" => tasks[t].permit
        /\ (Upserted(t) /\ t \notin replaced) => Doc(t) \in snapshot

\* A task has set its row to indexed and a search finds its document.
C10_Witness ==
    \E t \in TaskIds, id \in RowIds :
        /\ tasks[t].wrote = "indexed"
        /\ t \notin replaced
        /\ rows[id].url = tasks[t].url /\ rows[id].status = "indexed"
        /\ Doc(t) \in snapshot
        /\ tasks[t].url \in SearchUrls

\* --------------------------------------------------------------- C11
\* C11: no search observes a torn upsert: a commit never removes a document
\* the reader shows without either committing a document for the same URL
\* in the same commit or applying the delete_term of a delete call for that
\* URL (the reader takes every commit), also when an upsert failed part-way.
C11_NoTornUpsert ==
    [][\A doc \in (snapshot \cap committed) \ committed' :
          \/ \E new \in committed' : new.url = doc.url
          \/ \E k \in 1 .. Len(pending) : pending[k] = DelOp(doc.url)]_vars

\* --------------------------------------------------------------- C12
\* A step of ingest call i.
IngestStep(i) == ingests'[i] # ingests[i]

\* C12: ingest_urls returns its counts without waiting for any background
\* task: a call that has started its loop always returns, whatever the tasks
\* do and also while no fetch permit is free and the writer mutex is held,
\* and no step of the call takes or releases a permit, takes the writer
\* mutex, touches the index or moves an existing task.
C12_IngestNeverWaits ==
    /\ \A i \in IngestIds : (ingests[i].pc = "loop") ~> (ingests[i].pc = "done")
    /\ [][\A i \in IngestIds :
            IngestStep(i)
            => /\ permits' = permits /\ writer' = writer /\ pending' = pending
               /\ committed' = committed /\ snapshot' = snapshot
               /\ \A t \in TaskIds : tasks'[t] = tasks[t]]_vars

\* A call has returned with every URL of its batch accepted while no permit
\* is free, the writer mutex is held, and the rows it inserted are queued
\* with their tasks waiting for a permit.
C12_Witness ==
    \E i \in IngestIds :
        /\ ingests[i].pc = "done" /\ ingests[i].ret = "ok"
        /\ ingests[i].accepted = MaxSubmissions
        /\ permits = 0
        /\ writer # NoHolder
        /\ \A id \in RowIds : rows[id].status = "queued"
        /\ \A t \in TaskIds : t > CONCURRENT_FETCH_LIMIT => tasks[t].pc = "acquire"

\* --------------------------------------------------------------- C13
RECURSIVE SumOver(_, _)
SumOver(field, i) ==
    IF i = 0 THEN 0 ELSE ingests[i][field] + SumOver(field, i - 1)

Returned == {i \in IngestIds : ingests[i].pc = "done" /\ ingests[i].ret = "ok"}

\* C13: when the calls submit the same URL concurrently and no row holds it,
\* at most one submission is accepted, one row inserted and one task spawned
\* at any time, and once every call has returned its counts exactly one was
\* Accepted, all others Deduped, with exactly one row and one task.
C13_ConcurrentSameUrl ==
    /\ SumOver("accepted", MaxSubmissions) = Len(tasks)
    /\ Cardinality(RowIds) = Len(tasks)
    /\ Len(tasks) <= 1
    /\ Returned = IngestIds
       => /\ SumOver("accepted", MaxSubmissions) = 1
          /\ SumOver("deduped", MaxSubmissions) = MaxSubmissions - 1
          /\ \E id \in RowIds : RowIds = {id} /\ rows[id].url = Canon(1)
          /\ Len(tasks) = 1 /\ tasks[1].url = Canon(1)

\* Every call has returned and the call that arrived last won the insert:
\* the first call's submission was deduped against it.
C13_Witness ==
    /\ Returned = IngestIds
    /\ ingests[MaxSubmissions].accepted = 1
    /\ ingests[1].deduped = 1
    /\ Len(tasks) = 1

\* --------------------------------------------------------------- C14
\* Strings of at most MaxRawLen characters.
RawStrings == UNION {[1 .. n -> Chars] : n \in 0 .. MaxRawLen}

\* The string without surrounding whitespace and without its fragment.
Stem(raw) == LET t == Trim(raw) IN SubSeq(t, 1, HashFrom(t, 1) - 1)

\* Two raw strings that differ only in fragment or surrounding whitespace
\* have the same key.
FragmentBlind ==
    \A r1 \in RawStrings, r2 \in RawStrings :
        Stem(r1) = Stem(r2) => NormalizeUrl(r1) = NormalizeUrl(r2)

\* C14: normalization drops the fragment: raw strings that differ only in
\* their fragment or in surrounding whitespace normalize to the same key, so
\* of the spellings of one URL that are submitted only the first is accepted
\* (one row, keyed by the URL without fragment, and one task) and every later
\* one is deduped against it.
C14_FragmentDedup ==
    /\ FragmentBlind
    /\ \A raw \in SameUrlRaws : NormalizeUrl(raw) = Canon(1)
    /\ SumOver("accepted", MaxSubmissions) <= 1
    /\ Len(tasks) = SumOver("accepted", MaxSubmissions)
    /\ Cardinality(RowIds) = Len(tasks)
    /\ \A id \in RowIds : rows[id].url = Canon(1)

\* A batch of two spellings of the URL has been handled: the first was
\* accepted and the second deduped.
C14_Witness ==
    /\ ingests[1].pc = "done" /\ ingests[1].ret = "ok"
    /\ ingests[1].accepted = 1 /\ ingests[1].deduped = 1
    /\ \E id \in RowIds : RowIds = {id} /\ rows[id].url = Canon(1)

\* --------------------------------------------------------------- C15
\* C15: a batch longer than MAX_URLS is rejected with a client error before
\* any URL is processed (no row, no task, no count); an empty batch returns
\* {accepted: 0, deduped: 0} without error; in both cases nothing else
\* changes.  A batch of 1 .. MAX_URLS URLs enters the loop with all its URLs
\* to process, and a call that returns Ok has counted every URL of its batch.
C15_BatchLimit ==
    /\ [][\A i \in IngestIds, n \in BoundarySizes :
            IngestBegin(i, n)
            => /\ rows' = rows /\ tasks' = tasks /\ nextId' = nextId
               /\ ingests'[i].accepted = 0 /\ ingests'[i].deduped = 0
               /\ n > MAX_URLS
                  => ingests'[i].pc = "done" /\ ingests'[i].ret = "bad_request"
               /\ n = 0 => ingests'[i].pc = "done" /\ ingests'[i].ret = "ok"
               /\ (n >= 1 /\ n <= MAX_URLS)
                  => ingests'[i].pc = "loop" /\ ingests'[i].left = n]_vars
    /\ [](\A i \in IngestIds :
            /\ ingests[i].ret = "bad_request"
               => ingests[i].accepted = 0 /\ ingests[i].deduped = 0 /\ ingests[i].left = 0
            /\ (ingests[i].pc = "done" /\ ingests[i].ret = "ok")
               => ingests[i].accepted + ingests[i].deduped \in {0, MAX_URLS})

\* One call was rejected with nothing inserted or spawned by it, and another
\* has processed a batch of exactly MAX_URLS URLs.
C15_Witness ==
    \E i \in IngestIds, j \in IngestIds :
        /\ ingests[i].pc = "done" /\ ingests[i].ret = "bad_request"
        /\ ingests[j].pc = "done" /\ ingests[j].ret = "ok"
        /\ ingests[j].accepted + ingests[j].deduped = MAX_URLS
        /\ ingests[j].accepted = Len(tasks)
        /\ ingests[j].accepted >= 1

\* --------------------------------------------------------------- C16
\* Raw strings that are blank or are no absolute URL.
BadRaws == {raw \in RawUrls : Trim(raw) = << >> \/ Head(Trim(raw)) # "abs"}

\* C16: a raw URL that is blank or does not parse as an absolute URL is
\* counted as deduped, whether or not the database answers: no row is
\* inserted, no task is spawned, and the call goes on with the next URL of
\* the batch (or returns Ok when it was the last).
C16_BadUrlDeduped ==
    [][\A i \in IngestIds, raw \in BadRaws, dbok \in BOOLEAN :
          IngestUrl(i, raw, dbok)
          => /\ CountedDeduped(i)
             /\ tasks' = tasks /\ nextId' = nextId
             /\ ingests'[i].left = ingests[i].left - 1
             /\ ingests'[i].pc = IF ingests[i].left > 1 THEN "loop" ELSE "done"
             /\ ingests'[i].ret = IF ingests[i].left > 1 THEN "none" ELSE "ok"]_vars

\* A call has handled a whole batch of blank or unparsable strings: nothing
\* was ever inserted or spawned, and the first of them did not end the call.
C16_Witness ==
    /\ ingests[1].pc = "done" /\ ingests[1].ret = "ok"
    /\ ingests[1].deduped = MaxSubmissions /\ ingests[1].accepted = 0
    /\ nextId = 1 /\ rows = << >> /\ tasks = << >>

\* --------------------------------------------------------------- C17
\* Headers the authorization check denies: no header, no Bearer token in it,
\* or a token that is not the configured secret.
DeniedHeaders ==
    {h \in Headers :
        \/ h = NoHeader
        \/ h = << >> \/ Head(h) # "Bearer "
        \/ Trim(Tail(h)) # AdminToken}

\* C17: an ingest or delete request that the authorization check denies
\* runs no pipeline code: it is answered unauthorized and the Record Store,
\* the index, the limiter and the set of tasks are as they were, with no URL
\* counted and no row looked up.
C17_DeniedRunsNothing ==
    [][/\ \A i \in IngestIds, h \in DeniedHeaders, n \in BatchSizes :
            IngestRequest(i, h, n)
            => /\ ingests'[i] = [IdleIngest EXCEPT !.pc = "done", !.ret = "unauthorized"]
               /\ UNCHANGED <<rows, nextId, tasks, permits, writer, pending,
                              committed, snapshot, deletes>>
       /\ \A d \in DeleteIds, h \in DeniedHeaders, id \in 0 .. nextId :
            DeleteRequest(d, h, id, TRUE)
            => /\ deletes'[d].pc = "done" /\ deletes'[d].ret = "unauthorized"
               /\ deletes'[d].url = NoUrl
               /\ UNCHANGED <<rows, nextId, tasks, permits, writer, pending,
                              committed, snapshot, ingests>>]_vars

\* A denied ingest request and a denied delete of an indexed bookmark have
\* been answered: the row and its document are still there.
C17_Witness ==
    \E i \in IngestIds, d \in DeleteIds :
        /\ ingests[i].pc = "done" /\ ingests[i].ret = "unauthorized"
        /\ deletes[d].pc = "done" /\ deletes[d].ret = "unauthorized"
        /\ deletes[d].id \in RowIds
        /\ rows[deletes[d].id].status = "indexed"
        /\ rows[deletes[d].id].url \in SearchUrls

\* --------------------------------------------------------------- C18
\* C18: delete(id) with id <= 0 returns a client error, and delete(id) for
\* an id no row holds returns NotFound (when the SELECT is answered); in both
\* cases the call ends there: the writer mutex is not taken, nothing is
\* buffered or committed and the table is as it was, and a call that has
\* returned takes no further step.
C18_DeleteMissing ==
    [][/\ \A d \in DeleteIds, id \in 0 .. nextId, dbok \in BOOLEAN :
            (DeleteBegin(d, id, dbok) /\ (id <= 0 \/ (dbok /\ id \notin RowIds)))
            => /\ deletes'[d].pc = "done"
               /\ deletes'[d].ret = IF id <= 0 THEN "bad_request" ELSE "not_found"
               /\ UNCHANGED <<rows, nextId, tasks, permits, writer, pending,
                              committed, snapshot, ingests>>
       /\ \A d \in DeleteIds : deletes[d].pc = "done" => deletes'[d] = deletes[d]]_vars

\* A delete of an id whose row is gone (or was never inserted) has returned
\* NotFound while the table and the index hold another bookmark.
C18_Witness ==
    \E d \in DeleteIds :
        /\ deletes[d].pc = "done" /\ deletes[d].ret = "not_found"
        /\ deletes[d].id > 0 /\ deletes[d].url = NoUrl
        /\ deletes[d].id \notin RowIds
        /\ \E id \in RowIds : rows[id].status = "indexed" /\ rows[id].url \in SearchUrls

\* --------------------------------------------------------------- C19
\* C19: a list call that succeeds returns every row of the table exactly
\* once, each with the row's own columns, ordered by updated_at descending
\* with equal updated_at ordered by id descending.
C19_ListOrder ==
    [][(listing.ret = "none" /\ listing'.ret = "ok")
       => LET res == listing'.results IN
          /\ {res[k].id : k \in 1 .. Len(res)} = RowIds
          /\ Len(res) = Cardinality(RowIds)
          /\ \A k \in 1 .. Len(res) :
                /\ res[k].url = rows[res[k].id].url
                /\ res[k].status = rows[res[k].id].status
                /\ res[k].updated_at = rows[res[k].id].updated_at
          /\ \A k \in 1 .. (Len(res) - 1) :
                \/ res[k].updated_at > res[k + 1].updated_at
                \/ /\ res[k].updated_at = res[k + 1].updated_at
                   /\ res[k].id > res[k + 1].id]_vars

\* A list of three rows in which two rows have the same updated_at and a row
\* with a smaller id comes before a row with a larger one.
C19_Witness ==
    /\ listing.ret = "ok"
    /\ Len(listing.results) = 3
    /\ \E k \in 1 .. 2 : listing.results[k].updated_at = listing.results[k + 1].updated_at
    /\ \E k \in 1 .. 2 : listing.results[k].id < listing.results[k + 1].id

\* --------------------------------------------------------------- C20
\* Queries that are empty or hold whitespace only.
BlankQueries == {q \in Queries : \A k \in 1 .. Len(q) : q[k] = "sp"}

\* C20: a search whose query text is empty or whitespace-only returns
\* total_hits = 0 and no results without acquiring a searcher or parsing the
\* query, whatever the paging parameters, the build and the content of the
\* index; it changes nothing else.
C20_EmptyQuery ==
    [][(searching.ret = "none" /\ searching'.ret # "none"
        /\ searching'.q \in BlankQueries)
       => /\ searching'.ret = "ok"
          /\ searching'.total_hits = 0
          /\ searching'.results = << >>
          /\ ~searching'.engine
          /\ UNCHANGED <<rows, tasks, writer, pending, committed, snapshot>>]_vars

\* A search has been answered with no hit, without the engine, while the
\* reader's snapshot holds a document.
C20_Witness ==
    /\ searching.ret = "ok" /\ ~searching.engine
    /\ searching.q = <<"sp", "sp">>
    /\ searching.total_hits = 0 /\ searching.results = << >>
    /\ snapshot # {}

\* --------------------------------------------------------------- C21
\* page = max(page or 1, 1)
EffectivePage(p) == IF ~p.some \/ (p.hi = 0 /\ p.lo = 0) THEN Some(0, 1) ELSE p

\* perPage = clamp(per_page or 10, 1, 50)
EffectivePerPage(pp) ==
    IF ~pp.some THEN 10
    ELSE IF pp.hi > 0 \/ pp.lo > 50 THEN 50
    ELSE IF pp.lo < 1 THEN 1 ELSE pp.lo

\* The limbs of the mathematical product (page - 1) * perPage; the high limb
\* is not reduced.
ExactOffset(p, pp) ==
    LET page == EffectivePage(p)
        borrow == page.lo = 0
        hi == IF borrow THEN page.hi - 1 ELSE page.hi
        lo == IF borrow THEN Limb - 1 ELSE page.lo - 1
        low == lo * EffectivePerPage(pp)
    IN  [hi |-> hi * EffectivePerPage(pp) + (low \div Limb), lo |-> low % Limb]

\* C21: for every requested page and per_page, a search with a query that is
\* not blank is answered (it does not panic), the offset it hands to the
\* engine is exactly (page - 1) * perPage with page = max(page or 1, 1) and
\* perPage = clamp(per_page or 10, 1, 50), without wrap-around, and it
\* returns at most perPage results.
C21_Paging ==
    [][(searching.ret = "none" /\ searching'.ret # "none"
        /\ searching'.q \notin BlankQueries)
       => LET call == searching'
              exact == ExactOffset(call.page, call.per_page) IN
          /\ call.ret \in {"ok", "bad_request"}
          /\ call.offset.some
          /\ call.offset.hi = exact.hi /\ call.offset.lo = exact.lo
          /\ Len(call.results) <= EffectivePerPage(call.per_page)]_vars

\* --------------------------------------------------------------- C22
\* C22: make_excerpt(text, max_len) is absent when text is empty; otherwise
\* it is the first max_len characters of text, followed by one ellipsis if
\* and only if text has more than max_len characters.
C22_Excerpt ==
    (extraction.fn = "make_excerpt" /\ extraction.returned)
    => LET text == extraction.args.text
           max_len == extraction.args.max_len
           out == extraction.out IN
       /\ out.some <=> text # << >>
       /\ out.some
          => out.value = IF Len(text) > max_len
                         THEN SubSeq(text, 1, max_len) \o <<Ellipsis>>
                         ELSE text

\* --------------------------------------------------------------- C23
\* The site suffix of a title text stripped as specified: the separators are
\* tried in order, and the trimmed left-hand side of the first occurrence of
\* one is used if it has at least 6 characters.
RECURSIVE StripFrom(_, _)
StripFrom(text, k) ==
    IF k > Len(Delimiters) THEN text
    ELSE LET at == Find(text, Delimiters[k], 1)
             left == Trim(SubSeq(text, 1, at - 1))
         IN  IF at # 0 /\ Len(left) >= 6 THEN left ELSE StripFrom(text, k + 1)

\* The candidates of a document in priority order, trimmed.
Candidates(document) ==
    << Trim(document.og.value), Trim(document.twitter.value),
       Trim(document.h1.value), StripFrom(Trim(document.title.value), 1) >>

\* C23: extract_title returns the first non-empty (after trimming) candidate
\* in the order og:title content, twitter:title content, first h1 text,
\* title text with the site suffix stripped, and nothing when there is none.
C23_TitlePriority ==
    (extraction.fn = "extract_title" /\ extraction.returned)
    => LET c == Candidates(extraction.args)
           present == {k \in 1 .. 4 : c[k] # << >>} IN
       /\ extraction.out.some <=> present # {}
       /\ \A k \in present :
             (\A j \in present : k <= j) => extraction.out.value = c[k]

\* --------------------------------------------------------------- C24
\* C24: for a document whose only title candidate is its title element,
\* the separators are tried in their order on the trimmed title text, the
\* text is split on the first occurrence of the separator, and the trimmed
\* left-hand side is the title if it has at least 6 characters; otherwise
\* the trimmed title text is the title, unmodified.
C24_SiteSuffix ==
    (/\ extraction.fn = "extract_title" /\ extraction.returned
     /\ \A k \in 1 .. 3 : Candidates(extraction.args)[k] = << >>
     /\ Trim(extraction.args.title.value) # << >>)
    => /\ extraction.out.some
       /\ extraction.out.value = Candidates(extraction.args)[4]

\* --------------------------------------------------------------- C25
\* The declared media type of a header: its first word after trimming, in
\* lower case ("" when the header is blank).
Declared(content_type) ==
    LET ct == Trim(content_type) IN
    IF ct = << >> THEN "" ELSE Lower(Head(ct))

\* The first 512 bytes, decoded, without leading whitespace and byte order
\* marks, start with '<' in either case of what follows.
SniffsAsMarkup(body) ==
    LET seen == FromUtf8Lossy(SubSeq(body, 1, IF Len(body) < 512 THEN Len(body) ELSE 512))
    IN  \E k \in 1 .. Len(seen) :
            /\ seen[k] = "<"
            /\ \A j \in 1 .. (k - 1) : seen[j] \in {"sp", "feff"}

C26_CleanIdempotent ==
    (extraction.fn = "clean_text" /\ extraction.returned)
    => LET out == extraction.out
           Visible(s) == SelectSeq(s, LAMBDA c : c \notin Whitespace) IN
       /\ clean_text(out) = out
       /\ out # << >> => out[1] \notin Whitespace /\ out[Len(out)] \notin Whitespace
       /\ \A k \in 1 .. (Len(out) - 1) :
             ~(out[k] \in Whitespace /\ out[k + 1] \in Whitespace)
       /\ \A k \in 1 .. Len(out) : out[k] \in Whitespace => out[k] = "sp"
       /\ Visible(out) = Visible(extraction.args)

\* A text with a run of different whitespace characters inside and
\* whitespace at both ends has been cleaned to two words and one space.
C26_Witness ==
    /\ extraction.fn = "clean_text" /\ extraction.returned
    /\ extraction.args = <<"tab", "x", "sp", "tab", "x">>
    /\ extraction.out = <<"x", "sp", "x">>

\* --------------------------------------------------------------- C27
\* C27: in every reachable state the error field of every row has at most
\* 900 characters plus one trailing ellipsis, whichever failure wrote it
\* (transport error, body-read error, non-success status, unsupported
\* content type, index error).
C27_ErrorCapped ==
    \A id \in RowIds : rows[id].error_chars <= 900 + 1

\* --------------------------------------------------------------- C28
\* C28: a task takes its permit in its first step and in no other, holds it
\* in every step up to its last, and gives it back in the step that ends
\* it, whichever exit that is (indexed, one of the failure exits, or an
\* error of a Record Store write); a task that has ended holds none, and
\* whenever no task is between its acquire and its end every permit is
\* available.
C28_PermitReleased ==
    /\ [][\A t \in TaskIds :
            /\ (tasks[t].pc # "done" /\ tasks'[t].pc = "done")
               => tasks[t].permit /\ ~tasks'[t].permit /\ permits' = permits + 1
            /\ (tasks[t].permit /\ tasks'[t].pc # "done") => tasks'[t].permit
            /\ (~tasks[t].permit /\ tasks'[t].permit)
               => tasks[t].pc = "acquire" /\ permits' = permits - 1]_vars
    /\ [](\A t \in TaskIds : tasks[t].pc = "done" => ~tasks[t].permit)
    /\ []((\A t \in TaskIds : tasks[t].pc \in {"acquire", "done"})
          => permits = CONCURRENT_FETCH_LIMIT)

\* Two tasks have ended, one after its row was set to indexed and one on the
\* error of its mark_failed write, and every permit is available again.
C28_Witness ==
    \E t1 \in TaskIds, t2 \in TaskIds :
        /\ tasks[t1].pc = "done" /\ tasks[t1].wrote = "indexed"
        /\ tasks[t2].pc = "done" /\ tasks[t2].ret = "err"
        /\ ~tasks[t1].permit /\ ~tasks[t2].permit
        /\ permits = CONCURRENT_FETCH_LIMIT

\* --------------------------------------------------------------- C29
\* The operations inside the critical section of the index writer.
InCriticalSection ==
    {TaskHolder(t) : t \in {t \in TaskIds : tasks[t].pc \in {"add", "commit", "reload"}}}
    \cup {DeleteHolder(d) : d \in {d \in DeleteIds : deletes[d].pc \in {"commit", "reload"}}}

\* The operation that takes a step.
Stepping ==
    {TaskHolder(t) : t \in {t \in TaskIds : tasks'[t] # tasks[t]}}
    \cup {DeleteHolder(d) : d \in {d \in DeleteIds : deletes'[d] # deletes[d]}}

\* C29: at most one upsert or delete is inside the critical section at any
\* time, and it is the holder of the writer mutex; the writer's buffer and
\* the committed index change only in steps of the holder, so the steps of
\* one mutation are not interleaved with those of another; and the reader
\* is refreshed only while the writer mutex is held.
C29_WriterExclusive ==
    /\ [](/\ Cardinality(InCriticalSection) <= 1
          /\ InCriticalSection = {writer} \ {NoHolder})
    /\ [][/\ (pending' # pending \/ committed' # committed)
             => /\ writer' # NoHolder \/ writer # NoHolder
                /\ Stepping = {writer, writer'} \ {NoHolder}
          /\ snapshot' # snapshot => writer # NoHolder]_vars

\* --------------------------------------------------------------- C30
\* C30: a task whose fetch ends in a transport error, a body-read error, a
\* non-success status or a non-HTML classification does not take the
\* writer mutex and leaves the writer's buffer, the committed index and the
\* reader as they were; it ends, and the row of its URL is failed, with
\* http_status 0 after a transport error and with the status code and
\* content type of the response otherwise.
C30_FetchFailureExit ==
    [][\A t \in TaskIds, f \in Fetches, dbok \in BOOLEAN :
          FetchFailed(t, f, dbok)
          => /\ UNCHANGED <<writer, pending, committed, snapshot>>
             /\ tasks'[t].pc = "done"
             /\ \A id \in RowIds :
                   rows[id].url = tasks[t].url
                   => /\ rows'[id].status = "failed"
                      /\ rows'[id].http_status = IF f.sent THEN f.resp.status ELSE 0
                      /\ f.sent => rows'[id].content_type = f.resp.ct]_vars

\* C31: in every reachable state the error column of a row is non-null
\* exactly when the row's status is failed: queued and indexed rows carry a
\* null error (and no error length), failed rows carry a diagnostic.
C31_ErrorIffFailed ==
    \A id \in RowIds :
        /\ (rows[id].error # NULL) <=> (rows[id].status = "failed")
        /\ (rows[id].error_chars # NullInt) <=> (rows[id].status = "failed")

\* An indexed row with a null error whose URL was written 'failed' by one
\* task and 'indexed' by another: the two terminal UPDATEs met on one URL.
C31_Witness ==
    \E id \in RowIds :
        /\ rows[id].status = "indexed" /\ rows[id].error = NULL
        /\ \E t1, t2 \in TaskIds :
              /\ tasks[t1].url = rows[id].url /\ tasks[t1].wrote = "failed"
              /\ tasks[t2].url = rows[id].url /\ tasks[t2].wrote = "indexed"

\* ---------------------------------------------------------------- C32
\* The position of a task in process_url, in program order.
Rank(pc) ==
    CASE pc = "acquire" -> 0
      [] pc = "fetch" -> 1
      [] pc = "add" -> 2
      [] pc = "commit" -> 3
      [] pc = "reload" -> 4
      [] pc \in {"index_failed", "mark_indexed"} -> 5
      [] pc = "done" -> 6

\* A task only moves forward through process_url: it leaves the GET, the
\* upsert and the terminal write once each, and a returned task does
\* nothing more.  Tasks come from spawns only, one per inserted row.
OnePass ==
    /\ Len(tasks') >= Len(tasks)
    /\ Len(tasks') - Len(tasks) = nextId' - nextId
    /\ \A t \in TaskIds :
          /\ tasks'[t].url = tasks[t].url
          /\ tasks'[t] # tasks[t] => Rank(tasks'[t].pc) > Rank(tasks[t].pc)
          /\ tasks[t].wrote # "none" => tasks'[t] = tasks[t]

\* A task starts its GET (it leaves the semaphore) for a URL whose row is
\* failed.
FetchOfFailedRow ==
    \E t \in TaskIds :
        /\ tasks[t].pc = "acquire" /\ tasks'[t].pc = "fetch"
        /\ \E id \in RowIds :
              rows[id].url = tasks[t].url /\ rows[id].status = "failed"

\* C32: tasks never retry: every accepted submission leads to at most one
\* GET, one index upsert and one terminal write, and the URL of a row that
\* ended failed is not fetched again while that row exists.
C32_NoRetry == [][OnePass /\ ~FetchOfFailedRow]_vars

\* ---------------------------------------------------------------- C33
\* An iteration of ingest_urls counted a URL as deduped.
DedupedStep == \E i \in IngestIds : ingests'[i].deduped > ingests[i].deduped

\* C33: a deduped submission is a no-op: the step that counts a URL as
\* deduped leaves every row (status and updated_at included), the id
\* counter, the index (buffered, committed and visible), the writer mutex,
\* the permits and the task list unchanged, whatever the status of the row.
C33_DedupNoOp ==
    [][DedupedStep =>
          UNCHANGED <<rows, nextId, tasks, permits, writer, pending,
                      committed, snapshot, replaced>>]_vars

\* A call has counted a URL that normalizes as deduped; the row it collided
\* with is indexed and was last written at an earlier reading of the clock.
C33_Witness ==
    \E i \in IngestIds, id \in RowIds :
        /\ ingests[i].deduped > 0
        /\ rows[id].status = "indexed"
        /\ rows[id].updated_at < clock

\* ---------------------------------------------------------------- C34
\* Tasks that wait for a fetch permit.
Waiting == {t \in TaskIds : tasks[t].pc = "acquire"}

\* C34: under fair scheduling, with every GET ending, whenever tasks wait
\* for a fetch permit every one of them eventually runs to its end, and it
\* does so holding a permit it acquired: no accepted URL waits on the
\* limiter for ever, with more tasks queued than the limiter has permits.
C34_PermitEventually ==
    /\ (Waiting # {}) ~> (\A t \in TaskIds : tasks[t].pc = "done")
    /\ [][\A t \in TaskIds :
            (tasks[t].pc # "done" /\ tasks'[t].pc = "done") => tasks[t].permit]_vars

\* More tasks than the limiter has permits were queued, every one of them
\* has run to its end, and every permit is free again.
C34_Witness ==
    /\ Len(tasks) > CONCURRENT_FETCH_LIMIT
    /\ \A t \in TaskIds : tasks[t].pc = "done" /\ tasks[t].wrote = "failed"
    /\ permits = CONCURRENT_FETCH_LIMIT

\* ---------------------------------------------------------------- C35
\* C35: whenever a row has status indexed, the committed index holds a
\* document for the URL of that row.
C35_IndexedHasDocument ==
    \A id \in RowIds :
        rows[id].status = "indexed" => \E d \in committed : d.url = rows[id].url

\* ---------------------------------------------------------------- C36
\* The buffered operations that are not left over from another task's
\* upsert: those of delete calls and those of the task that holds the writer.
OwnOps ==
    SelectSeq(pending, LAMBDA o : o.task = 0 \/ writer = TaskHolder(o.task))

\* C36: a failed upsert leaves no residue: what a commit makes of the index
\* is what the operations of delete calls and of the committing caller make
\* of it; the delete_term and add_document buffered by an upsert that
\* returned an error take no part in it.
C36_NoResidue ==
    [][committed' # committed => committed' = ApplyOps(OwnOps, committed)]_vars

\* ---------------------------------------------------------------- C37
\* Rows inserted by the step.
Inserted == DOMAIN rows' \ RowIds

\* A call of ingest_urls returns a Record Store error in the step.
Aborts == \E i \in IngestIds : ingests[i].ret # "error" /\ ingests'[i].ret = "error"

BatchSize(c) == c.left + c.accepted + c.deduped

\* C38: when ingest_urls returns success for a batch of n URLs, accepted +
\* deduped = n and accepted is the number of rows the call inserted: every
\* iteration counts its URL once, in accepted exactly when it inserted a
\* row, and the call returns success only with no URL left.
C38_CountsAddUp ==
    /\ [](\A i \in IngestIds :
            (ingests[i].pc = "done" /\ ingests[i].ret = "ok") => ingests[i].left = 0)
    /\ [][\A i \in IngestIds :
            /\ ingests[i].pc = "loop" => BatchSize(ingests'[i]) = BatchSize(ingests[i])
            /\ (ingests[i].pc = "loop" /\ ingests'[i].ret = "ok")
               => BatchSize(ingests[i]) = ingests'[i].accepted + ingests'[i].deduped
            /\ ingests'[i] # ingests[i]
               => /\ ingests'[i].accepted = ingests[i].accepted + Cardinality(Inserted)
                  /\ \A j \in IngestIds \ {i} : ingests'[j] = ingests[j]
            /\ Inserted # {} => \E j \in IngestIds : ingests'[j] # ingests[j]]_vars

\* A call has returned success for a batch of two URLs, one accepted and
\* one deduped, and the table holds the one row it inserted.
C38_Witness ==
    \E i \in IngestIds :
        /\ ingests[i].pc = "done" /\ ingests[i].ret = "ok"
        /\ ingests[i].accepted = 1 /\ ingests[i].deduped = 1
        /\ \A j \in IngestIds \ {i} : ingests[j].pc = "idle"
        /\ \A d \in DeleteIds : deletes[d].pc = "idle"
        /\ Cardinality(RowIds) = 1

\* ---------------------------------------------------------------- C39
\* Every delete call found the row of bookmark 1 with its SELECT (the calls
\* overlap: none began after another had removed the row) and has returned.
AllReturned ==
    \A d \in Racers : deletes[d].pc = "done" /\ deletes[d].url = Canon(1)

\* Exactly one call returned success and each of the others NotFound.
OneWinner ==
    /\ Cardinality({d \in Racers : deletes[d].ret = "ok"}) = 1
    /\ \A d \in Racers : deletes[d].ret \in {"ok", "not_found"}

\* C39: when several delete(id) calls for the same existing id run
\* concurrently, exactly one returns success and each of the others
\* NotFound; once they have returned the row is absent and the committed
\* index holds no document for its URL.
C39_DeleteRace ==
    AllReturned
    => /\ OneWinner
       /\ 1 \notin RowIds
       /\ \A doc \in committed : doc.url # Canon(1)

====
